---------------------------- MODULE Spec2Model ----------------------------
(***************************************************************************)
(* State-machine model of the WikitextSerializer (mediawiki.Wikitext-      *)
(* Serializer.js, concatenated into src/js/api/ParserService.js).          *)
(*                                                                         *)
(* Strings are sequences of one-character strings.  The walker of          *)
(* WSP._serializeDOM is unrolled into steps: the DOM is drawn lazily, node *)
(* by node, in document order, from the node kinds below.                  *)
(***************************************************************************)
EXTENDS Integers, Sequences, FiniteSets, Bags, TLC

(***************************************************************************)
(* Bounds of the model                                                     *)
(***************************************************************************)
\* nodes below the root that one process serializes (over all its calls)
MaxNodes == 3
\* nesting depth of elements below the root
MaxDepth == 3
\* the same two bounds for DOMs of nested lists
MaxListNodes == 8
MaxListDepth == 5
\* top-level serializeDOM calls of one process
MaxCalls == 2

(***************************************************************************)
(* Program constants                                                       *)
(***************************************************************************)
START_SEP == 1
IE_SEP == 2
END_SEP == 3

(***************************************************************************)
(* Strings                                                                 *)
(***************************************************************************)
NL == "\n"
Empty == << >>
Null == "null"
\* a string-valued field holding null
NullStr == <<"null">>

EndsWithNL(s) == Len(s) > 0 /\ s[Len(s)] \in {NL, "\r"}
HasNL(s) == \E i \in 1..Len(s) : s[i] = NL
RECURSIVE StripNL(_)
StripNL(s) ==
    IF s = Empty THEN Empty
    ELSE IF Head(s) = NL THEN StripNL(Tail(s))
    ELSE <<Head(s)>> \o StripNL(Tail(s))

\* res.match(/^[ \t]*\n/)
RECURSIVE StartsWithBlankNL(_)
StartsWithBlankNL(s) ==
    IF s = Empty THEN FALSE
    ELSE IF Head(s) = NL THEN TRUE
    ELSE IF Head(s) \in {" ", "\t"} THEN StartsWithBlankNL(Tail(s))
    ELSE FALSE

IsSpace(c) == c \in {" ", "\t", NL, "\r"}

\* String.prototype.substring(i1, i2): arguments are clamped to the length
\* and swapped when i1 > i2
Min(a, b) == IF a < b THEN a ELSE b
Max(a, b) == IF a > b THEN a ELSE b
Clamp(i, n) == Max(0, Min(i, n))
Substring(s, i1, i2) ==
    LET a == Clamp(i1, Len(s))
        b == Clamp(i2, Len(s))
    IN  SubSeq(s, Min(a, b) + 1, Max(a, b))

\* s begins with the characters of p
StartsWith(s, p) == Len(s) >= Len(p) /\ SubSeq(s, 1, Len(p)) = p

\* separator.match(/^(\s|<!--([^\-]|-(?!->))*-->)*$/)
CommentOpen == <<"<", "!", "-", "-">>
CommentClose == <<"-", "-", ">">>
RECURSIVE AfterCommentClose(_)
AfterCommentClose(s) ==
    IF Len(s) < 3 THEN <<"unterminated">>
    ELSE IF StartsWith(s, CommentClose) THEN SubSeq(s, 4, Len(s))
    ELSE AfterCommentClose(Tail(s))
RECURSIVE IsSeparatorText(_)
IsSeparatorText(s) ==
    IF s = Empty THEN TRUE
    ELSE IF IsSpace(Head(s)) THEN IsSeparatorText(Tail(s))
    ELSE IF StartsWith(s, CommentOpen)
         THEN LET r == AfterCommentClose(SubSeq(s, 5, Len(s)))
              IN  r # <<"unterminated">> /\ IsSeparatorText(r)
    ELSE FALSE

(***************************************************************************)
(* JavaScript values of state.singleLineMode: a number, undefined or NaN   *)
(***************************************************************************)
JNum(n) == [t |-> "number", n |-> n]
JUndefined == [t |-> "undefined", n |-> 0]
JNaN == [t |-> "NaN", n |-> 0]
Truthy(v) == v.t = "number" /\ v.n # 0
\* v + k  and  v - 1  on such a value
JAdd(v, k) == IF v.t = "number" THEN JNum(v.n + k) ELSE JNaN
\* reading a property an object does not have gives undefined
GetProp(obj, key) == IF key \in DOMAIN obj THEN obj[key] ELSE JUndefined

\* Array.prototype.pop / last on a possibly empty array
Pop(a) == IF a = << >> THEN a ELSE SubSeq(a, 1, Len(a) - 1)

(***************************************************************************)
(* data-parsoid and DOM nodes                                              *)
(***************************************************************************)
\* dsr: v is the 4-tuple (empty when data-parsoid has no dsr), nul the
\* 0-based indexes whose entry is null (a null entry counts as 0 in sums)
NoDsr == [v |-> << >>, nul |-> {}]
Dsr(a, b, c, d) == [v |-> <<a, b, c, d>>, nul |-> {}]
DsrNullAt(d, i) == [d EXCEPT !.nul = @ \cup {i}]
HasDsr(dp) == dp.dsr.v # << >>
DsrIsNull(d, i) == i \in d.nul
DsrAt(d, i) == IF i \in d.nul THEN 0 ELSE d.v[i + 1]

NoSrc == <<"undefined">>
DP(stx, dsr, src) ==
    [stx |-> stx, dsr |-> dsr, src |-> src,
     autoInsertedStart |-> FALSE, autoInsertedEnd |-> FALSE,
     optionList |-> << >>]
EmptyDP == DP("", NoDsr, NoSrc)
\* Object.keys(dataAttribs).length === 0
DpEmpty(dp) ==
    /\ dp.stx = ""
    /\ ~HasDsr(dp)
    /\ dp.src = NoSrc
    /\ ~dp.autoInsertedStart
    /\ ~dp.autoInsertedEnd

Element(name, typeof, property, about, dp) ==
    [nodeType |-> "element", nodeName |-> name, typeof |-> typeof,
     property |-> property, about |-> about, dp |-> dp, data |-> Empty,
     badJSON |-> FALSE, content |-> "", caption |-> ""]
TextNode(data) ==
    [nodeType |-> "text", nodeName |-> "#text", typeof |-> "", property |-> "",
     about |-> "", dp |-> EmptyDP, data |-> data, badJSON |-> FALSE,
     content |-> "", caption |-> ""]
CommentNode(data) ==
    [nodeType |-> "comment", nodeName |-> "#comment", typeof |-> "",
     property |-> "", about |-> "", dp |-> EmptyDP, data |-> data,
     badJSON |-> FALSE, content |-> "", caption |-> ""]

(***************************************************************************)
(* Tokens (mediawiki.parser.defines.js)                                    *)
(***************************************************************************)
Tk(type, name, typeof, property, da, text) ==
    [type |-> type, name |-> name, typeof |-> typeof, property |-> property,
     da |-> da, text |-> text]
UndefinedTk == Tk("undefined", "", "", "", EmptyDP, Empty)
NullTk == Tk("null", "", "", "", EmptyDP, Empty)
TagTk(node) == Tk("TagTk", node.nodeName, node.typeof, node.property, node.dp, Empty)
EndTagTk(node) == Tk("EndTagTk", node.nodeName, node.typeof, node.property, node.dp, Empty)
StringTk(text) == Tk("String", "", "", "", EmptyDP, text)
CommentTk(text) == Tk("CommentTk", "", "", "", EmptyDP, text)
EOFTk == Tk("EOFTk", "", "", "", EmptyDP, Empty)
\* token.isHTMLTag()
IsHTMLTag(token) == token.da.stx = "html"

(***************************************************************************)
(* Serializer state (WSP.initialState) and the tag handler table           *)
(***************************************************************************)
\* WSP.initialState, cloned by serializeDOM; pageSrc is env.page.src of the
\* options (NoSrc when the environment holds no original wikitext)
InitialState(pageSrc) ==
    [tableStack |-> << >>,
     listStack |-> << >>,
     onNewline |-> TRUE,
     onStartOfLine |-> TRUE,
     singleLineMode |-> JNum(0),
     wteHandlerStack |-> << >>,
     bufferedSeparator |-> NullStr,
     separatorEmittedFromSrc |-> FALSE,
     prevToken |-> UndefinedTk,
     curToken |-> UndefinedTk,
     prevTagToken |-> UndefinedTk,
     currTagToken |-> UndefinedTk,
     ignorePTag |-> FALSE,
     activeTemplateId |-> Null,
     parentSTX |-> "",
     inIndentPre |-> FALSE,
     textHandler |-> Null,
     lastRes |-> Empty,
     selser |-> [serializeInfo |-> Null],
     pageSrc |-> pageSrc]

HasPageSrc(state) == state.pageSrc # NoSrc

\* one start/end entry of a handler; absent flags are FALSE / 0
Part(handle, startsLine, endsLine, singleLine, ignore) ==
    [handle |-> handle, startsLine |-> startsLine, endsLine |-> endsLine,
     emitsNL |-> FALSE, solTransparent |-> FALSE, singleLine |-> singleLine,
     ignore |-> ignore, isTemplateSrc |-> FALSE]
\* {} : what `handler.start || {}` gives for a missing entry
NoPart == Part(FALSE, FALSE, FALSE, 0, FALSE)
IgnorePart == Part(FALSE, FALSE, FALSE, 0, TRUE)
HandlePart == Part(TRUE, FALSE, FALSE, 0, FALSE)
TemplateSrcPart == [HandlePart EXCEPT !.isTemplateSrc = TRUE]
CommentPart == [NoPart EXCEPT !.solTransparent = TRUE]

buildHeadingHandler ==
    [start |-> Part(TRUE, TRUE, FALSE, 0, FALSE),
     end |-> Part(TRUE, FALSE, TRUE, 0, FALSE),
     wtEscapeHandler |-> "headingHandler"]
buildListHandler ==
    [start |-> HandlePart,
     end |-> Part(TRUE, FALSE, TRUE, 0, FALSE),
     wtEscapeHandler |-> Null]
buildListItemHandler(endTagEndsLine) ==
    [start |-> Part(TRUE, FALSE, FALSE, 1, FALSE),
     end |-> Part(FALSE, FALSE, endTagEndsLine, -1, FALSE),
     wtEscapeHandler |-> "liHandler"]

\* WSP.tagHandlers as the module is loaded (the entries of the tags the
\* model's node kinds use)
TagHandlers ==
    [body |-> [start |-> NoPart, end |-> HandlePart, wtEscapeHandler |-> Null],
     ul |-> buildListHandler,
     li |-> buildListItemHandler(TRUE),
     table |-> [start |-> HandlePart,
                end |-> Part(TRUE, TRUE, TRUE, 0, FALSE),
                wtEscapeHandler |-> Null],
     tbody |-> [start |-> IgnorePart, end |-> IgnorePart, wtEscapeHandler |-> Null],
     tr |-> [start |-> Part(TRUE, TRUE, FALSE, 0, FALSE),
             end |-> Part(TRUE, FALSE, TRUE, 0, FALSE),
             wtEscapeHandler |-> Null],
     td |-> [start |-> HandlePart, end |-> NoPart,
             wtEscapeHandler |-> "tdHandler"],
     p |-> [start |-> Part(TRUE, TRUE, FALSE, 0, FALSE),
            end |-> HandlePart,
            wtEscapeHandler |-> Null],
     pre |-> [start |-> Part(TRUE, TRUE, FALSE, 0, FALSE),
              end |-> HandlePart,
              wtEscapeHandler |-> Null],
     meta |-> [start |-> HandlePart, end |-> NoPart, wtEscapeHandler |-> Null],
     b |-> [start |-> HandlePart, end |-> HandlePart,
            wtEscapeHandler |-> "quoteHandler"],
     i |-> [start |-> HandlePart, end |-> HandlePart,
            wtEscapeHandler |-> "quoteHandler"],
     h2 |-> buildHeadingHandler]

\* WSP.defaultHTMLTagHandler
defaultHTMLTagHandler ==
    [start |-> HandlePart, end |-> HandlePart, wtEscapeHandler |-> Null]

(***************************************************************************)
(* The world an operation acts on: s the state record, c the chunks passed *)
(* to the caller's chunk callback so far, h the (process-wide) handler     *)
(* table, threw whether a JavaScript exception is propagating, cb and bits *)
(* the callback state.chunkCB stands for and what a string collector got   *)
(***************************************************************************)
\* no exception is propagating
NoException == "none"
\* throw: the exception starts to propagate
Throw(w, e) == [w EXCEPT !.threw = TRUE, !.exception = e]
World(s, c, h, g) ==
    [s |-> s, c |-> c, h |-> h, g |-> g, threw |-> FALSE, exception |-> NoException,
     cb |-> "onChunk", bits |-> Empty]

\* History kept beside the state: at is the number of chunks passed on when
\* the newline now in bufferedSeparator was asked for; placed, discarded and
\* emitted count the newlines put in the buffer, dropped from it, and passed
\* from it to the caller's chunk callback as a separator chunk
\* consulted counts the b and i start handlers that read state.lastRes, stale
\* those that read something else than the end of the wikitext produced so far
NoHistory == [at |-> 0, placed |-> 0, discarded |-> 0, emitted |-> 0,
              consulted |-> 0, stale |-> 0, comments |-> 0, folded |-> 0]
\* the buffered separator as a string
Buffered(state) ==
    IF state.bufferedSeparator = NullStr THEN Empty ELSE state.bufferedSeparator
\* a chunk as the caller's chunk callback gets it; at is the number of chunks
\* passed on when it was asked for, sep the arguments of the emitSeparator
\* call that spliced it from the page source
NoSep == << >>
Chunk(text, serializeInfo, at) ==
    [text |-> text, info |-> serializeInfo, at |-> at, sep |-> NoSep]

\* state.chunkCB: the callback serializeDOM installed, or the string
\* collector serializeChildrenToString put in its place
\* the sliding buffer keeps the last 100 characters
LastResWindow == 100
\* s.substr(-n)
LastChars(s, n) == IF Len(s) <= n THEN s ELSE SubSeq(s, Len(s) - n + 1, Len(s))
chunkCB(w, chunk, serializeInfo) ==
    IF w.cb = "bits"
    THEN [w EXCEPT !.bits = @ \o chunk]
    ELSE [w EXCEPT !.c = Append(@, Chunk(chunk, serializeInfo, Len(w.c))),
                   !.s.lastRes = LastChars(@ \o chunk, LastResWindow)]

emitSepChunk(w, separator) ==
    LET s1 == IF EndsWithNL(separator) /\ separator[Len(separator)] = NL
              THEN [w.s EXCEPT !.onNewline = TRUE] ELSE w.s
        s2 == IF HasNL(separator) THEN [s1 EXCEPT !.onStartOfLine = TRUE] ELSE s1
        buf == Buffered(w.s)
        w1 == chunkCB([w EXCEPT !.s = s2], separator, "separator")
        w2 == IF w.cb = "onChunk"
              THEN [w1 EXCEPT !.c[Len(w1.c)].at = IF buf # Empty THEN w.g.at ELSE @,
                              !.g.emitted = @ + Len(buf)]
              ELSE w1
    IN  [w2 EXCEPT !.s.bufferedSeparator = NullStr]

\* dsr index read from n1 and from n2 for a separator type
dsrIndex1(sepType) == IF sepType = START_SEP THEN 0 ELSE 1
dsrIndex2(sepType) == IF sepType = END_SEP THEN 1 ELSE 0
\* the span emitSeparator extracts from the page source
SeparatorSpan(pageSrc, dsr1, dsr2, sepType) ==
    LET i1 == DsrAt(dsr1, dsrIndex1(sepType))
                + (IF sepType = START_SEP THEN DsrAt(dsr1, 2) ELSE 0)
        i2 == DsrAt(dsr2, dsrIndex2(sepType))
                - (IF sepType = END_SEP THEN DsrAt(dsr2, 3) ELSE 0)
    IN  Substring(pageSrc, i1, i2)
\* An emitSeparator that emits the extracted span without verifying it
emitSeparatorUnverified(w, n1, n2, sepType) ==
    IF ~HasPageSrc(w.s) THEN w
    ELSE IF ~HasDsr(n1.dp) \/ DsrIsNull(n1.dp.dsr, dsrIndex1(sepType)) THEN w
    ELSE IF ~HasDsr(n2.dp) \/ DsrIsNull(n2.dp.dsr, dsrIndex2(sepType)) THEN w
    ELSE LET separator == SeparatorSpan(w.s.pageSrc, n1.dp.dsr, n2.dp.dsr, sepType)
             w1 == emitSepChunk(w, separator)
         IN  [w1 EXCEPT !.s.separatorEmittedFromSrc = TRUE,
                        !.c[Len(w1.c)].at = Len(w.c),
                        !.c[Len(w1.c)].sep = <<sepType, n1.dp.dsr, n2.dp.dsr>>,
                        !.g.emitted = w.g.emitted,
                        !.g.discarded = @ + Len(Buffered(w.s))]

emitSeparator(w, n1, n2, sepType) ==
    IF ~HasPageSrc(w.s) THEN w
    ELSE IF ~HasDsr(n1.dp) \/ DsrIsNull(n1.dp.dsr, dsrIndex1(sepType)) THEN w
    ELSE IF ~HasDsr(n2.dp) \/ DsrIsNull(n2.dp.dsr, dsrIndex2(sepType)) THEN w
    ELSE LET separator == SeparatorSpan(w.s.pageSrc, n1.dp.dsr, n2.dp.dsr, sepType)
             w1 == emitSepChunk(w, separator)
         IN  IF IsSeparatorText(separator)
             THEN [w1 EXCEPT !.s.separatorEmittedFromSrc = TRUE,
                             !.c[Len(w1.c)].at = Len(w.c),
                             !.c[Len(w1.c)].sep = <<sepType, n1.dp.dsr, n2.dp.dsr>>,
                             !.g.emitted = w.g.emitted,
                             !.g.discarded = @ + Len(Buffered(w.s))]
             ELSE w

(***************************************************************************)
(* Tag handlers.  A handle operator gives [w, res]: the world after the    *)
(* handler ran (handlers write to the state and to their own table entry)  *)
(* and the wikitext it returned.                                           *)
(***************************************************************************)
isListItem(token) == token.type = "TagTk" /\ token.name \in {"li", "dt", "dd"}
\* the model's tokens carry no stx 'row'
isMultilineListItem(token) == isListItem(token) /\ token.da.stx # "row"

NameStr(name) ==
    CASE name = "p" -> <<"p">>
      [] name = "h2" -> <<"h", "2">>
      [] name = "ul" -> <<"u", "l">>
      [] name = "li" -> <<"l", "i">>
      [] name = "td" -> <<"t", "d">>
      [] name = "tr" -> <<"t", "r">>
      [] name = "table" -> <<"t", "a", "b", "l", "e">>
      [] name = "tbody" -> <<"t", "b", "o", "d", "y">>
      [] name = "meta" -> <<"m", "e", "t", "a">>
      [] OTHER -> <<name>>
isVoidElement(name) == name \in {"meta", "br", "hr", "img", "link"}

\* the model's tokens carry no attributes besides typeof/property, which the
\* handlers consume: _serializeAttributes gives '' and the tag is the bare symbol
serializeTableTag(symbol, endSymbol) == symbol \o endSymbol

serializeHTMLTag(w, token) ==
    IF token.da.autoInsertedStart THEN [w |-> w, res |-> Empty]
    ELSE [w |-> w,
          res |-> <<"<">> \o NameStr(token.name)
                    \o (IF isVoidElement(token.name) THEN <<"/">> ELSE Empty)
                    \o <<">">>]

serializeHTMLEndTag(w, token) ==
    IF ~token.da.autoInsertedEnd /\ ~isVoidElement(token.name)
    THEN [w |-> w, res |-> <<"<", "/">> \o NameStr(token.name) \o <<">">>]
    ELSE [w |-> w, res |-> Empty]

openHeading(w, v) == [w |-> w, res |-> v]
\* A closeHeading that never fences
closeHeadingUnfenced(w, v, token) == [w |-> w, res |-> v]
closeHeading(w, v, token) ==
    IF w.s.prevToken.type = "TagTk" /\ w.s.prevToken.name = token.name
    THEN [w |-> w,
          res |-> <<"<", "n", "o", "w", "i", "k", "i", ">",
                    "<", "/", "n", "o", "w", "i", "k", "i", ">">> \o v]
    ELSE [w |-> w, res |-> v]

\* A list handler that does not count a nested list in the list around it
listHandlerUncounted(w, tag, bullet, token) ==
    LET s1 == IF Truthy(w.s.singleLineMode)
              THEN [w.s EXCEPT !.singleLineMode = JAdd(@, -1)]
              ELSE w.s
        stack == s1.listStack
        curList == stack[Len(stack)]
        nested == stack # << >>
        bullets == IF nested
                   THEN curList.bullets \o curList.itemBullet \o bullet
                   ELSE bullet
        count == IF nested THEN curList.itemCount ELSE 0
        full == ~nested \/ (count > 1 /\ ~isMultilineListItem(s1.prevToken))
        stack1 == IF nested
                  THEN [stack EXCEPT ![Len(stack)].itemCount = count]
                  ELSE stack
        stack2 == Append(stack1,
                         [itemCount |-> 0, bullets |-> bullets, itemBullet |-> Empty])
    IN  [w |-> [w EXCEPT !.s = [s1 EXCEPT !.listStack = stack2],
                         !.h[tag].start.startsLine = full],
         res |-> IF full THEN bullets ELSE bullet]
listHandler(w, tag, bullet, token) ==
    LET s1 == IF Truthy(w.s.singleLineMode)
              THEN [w.s EXCEPT !.singleLineMode = JAdd(@, -1)]
              ELSE w.s
        stack == s1.listStack
        curList == stack[Len(stack)]
        nested == stack # << >>
        bullets == IF nested
                   THEN curList.bullets \o curList.itemBullet \o bullet
                   ELSE bullet
        count == IF nested THEN curList.itemCount + 1 ELSE 0
        full == ~nested \/ (count > 1 /\ ~isMultilineListItem(s1.prevToken))
        stack1 == IF nested
                  THEN [stack EXCEPT ![Len(stack)].itemCount = count]
                  ELSE stack
        stack2 == Append(stack1,
                         [itemCount |-> 0, bullets |-> bullets, itemBullet |-> Empty])
    IN  [w |-> [w EXCEPT !.s = [s1 EXCEPT !.listStack = stack2],
                         !.h[tag].start.startsLine = full],
         res |-> IF full THEN bullets ELSE bullet]

listEndHandler(w) ==
    [w |-> [w EXCEPT !.s.listStack = Pop(@)], res |-> Empty]

\* A list item handler that never repeats the bullets of the open lists
listItemHandlerOwnBullet(w, tag, bullet, token) ==
    [w |-> [w EXCEPT !.s.listStack =
                        IF @ = << >>
                        THEN <<[itemCount |-> 1, bullets |-> bullet,
                                itemBullet |-> bullet]>>
                        ELSE [@ EXCEPT ![Len(@)].itemCount = @ + 1,
                                       ![Len(@)].itemBullet = bullet],
                     !.h[tag].start.startsLine = FALSE],
     res |-> bullet]
listItemHandler(w, tag, bullet, token) ==
    LET stack0 == w.s.listStack
        \* a bare list item outside any list gets a frame of its own
        stack == IF stack0 = << >>
                 THEN <<[itemCount |-> 0, bullets |-> bullet, itemBullet |-> bullet]>>
                 ELSE stack0
        top == Len(stack)
        count == stack[top].itemCount + 1
        stack1 == [stack EXCEPT ![top].itemCount = count, ![top].itemBullet = bullet]
        isRepeatToken == w.s.prevToken.type = "EndTagTk"
                            /\ w.s.prevToken.name = token.name
        isMultiLineDtDdPair == token.name = "dd" /\ token.da.stx # "row"
                            /\ w.s.prevTagToken.type = "EndTagTk"
                            /\ w.s.prevTagToken.name = "dt"
        full == count > 1
                  /\ (w.s.onStartOfLine \/ isRepeatToken \/ isMultiLineDtDdPair)
    IN  [w |-> [w EXCEPT !.s.listStack = stack1,
                         !.h[tag].start.startsLine = full],
         res |-> IF full THEN stack1[top].bullets \o bullet ELSE bullet]

\* all the wikitext produced so far, in document order: the chunks passed to
\* the caller and what a string collector holds
RECURSIVE ChunkText(_)
ChunkText(cs) ==
    IF cs = << >> THEN Empty ELSE Head(cs).text \o ChunkText(Tail(cs))
Produced(w) == ChunkText(w.c) \o (IF w.cb = "bits" THEN w.bits ELSE Empty)
FiveQuotes == <<"'", "'", "'", "'", "'">>
\* state.lastRes.match(/'''''$/)
endsInFiveQuotes(s) ==
    Len(s) >= 5 /\ SubSeq(s, Len(s) - 4, Len(s)) = FiveQuotes
\* the start handler of b and i, quotes being ''' or ''
quoteStartHandler(w, quotes) ==
    [w |-> [w EXCEPT !.g.consulted = @ + 1,
                     !.g.stale = IF w.s.lastRes = LastChars(Produced(w), LastResWindow)
                                 THEN @ ELSE @ + 1],
     res |-> IF endsInFiveQuotes(w.s.lastRes)
             THEN <<"<", "n", "o", "w", "i", "k", "i", "/", ">">> \o quotes
             ELSE quotes]

tableStartHandler(w, token) ==
    LET frame == [listStack |-> w.s.listStack, singleLine |-> w.s.singleLineMode]
    IN  [w |-> [w EXCEPT !.h.table.start.startsLine = (w.s.listStack = << >>),
                         !.s.tableStack = Append(@, frame),
                         !.s.singleLineMode = JNum(0),
                         !.s.listStack = << >>],
         res |-> serializeTableTag(<<"{", "|">>, Empty)]

\* popping an empty tableStack gives undefined, and reading its listStack throws
tableEndHandler(w, token) ==
    IF w.s.tableStack = << >>
    THEN [w |-> Throw(w, "TypeError"), res |-> Empty]
    ELSE LET listState == w.s.tableStack[Len(w.s.tableStack)]
         IN  [w |-> [w EXCEPT !.s.tableStack = Pop(@),
                              !.s.listStack = listState.listStack,
                              !.s.singleLineMode = GetProp(listState, "singleLineMode"),
                              !.h.table["end"].startsLine =
                                  (w.s.prevTagToken.type \notin {"undefined", "null"}
                                   /\ w.s.prevTagToken.name = "tr")],
              res |-> <<"|", "}">>]

trStartHandler(w, token) ==
    IF w.s.prevToken.type = "TagTk" /\ w.s.prevToken.name = "tbody"
    THEN [w |-> w, res |-> Empty]
    ELSE [w |-> w, res |-> serializeTableTag(<<"|", "-">>, Empty)]

\* the model's cells carry no stx_v 'row'
tdStartHandler(w, token) ==
    [w |-> [w EXCEPT !.h.td.start.startsLine = TRUE],
     res |-> serializeTableTag(<<"|">>, Empty)]

pStartHandler(w, token) ==
    LET prevTag == w.s.prevTagToken
    IN  [w |-> [w EXCEPT !.h.p.start.emitsNL =
                    ~(HasPageSrc(w.s)
                      \/ (prevTag.type = "TagTk" /\ prevTag.name = "body"))],
         res |-> Empty]

pEndHandler(w, token) ==
    LET prevTag == w.s.prevToken
        afterPOrBr == (prevTag.type = "TagTk" /\ prevTag.name = "p")
                        \/ (prevTag.type = "EndTagTk" /\ prevTag.name = "br")
    IN  [w |-> [w EXCEPT !.h.p["end"].endsLine = afterPOrBr \/ ~HasPageSrc(w.s),
                         !.h.p["end"].emitsNL = ~afterPOrBr /\ ~HasPageSrc(w.s)],
         res |-> Empty]

\* tagHandlers.pre: the start tag installs the indent-pre text handler
preStartHandler(w, token) ==
    [w |-> [w EXCEPT !.s.inIndentPre = TRUE, !.s.textHandler = "indentPre"],
     res |-> IF /\ ~HasPageSrc(w.s)
                /\ w.s.prevTagToken.type = "EndTagTk"
                /\ w.s.prevTagToken.name = "pre"
                /\ w.s.prevTagToken.da.stx # "html"
             THEN <<NL, " ">> ELSE <<" ">>]
preEndHandler(w, token) ==
    [w |-> [w EXCEPT !.s.inIndentPre = FALSE, !.s.textHandler = Null],
     res |-> Empty]

metaStartHandler(w, token) ==
    IF token.typeof # ""
    THEN CASE token.typeof = "mw:IncludeOnly" ->
                [w |-> [w EXCEPT !.h.meta.start.solTransparent = TRUE],
                 res |-> token.da.src]
           [] token.typeof = "mw:NoInclude" ->
                [w |-> [w EXCEPT !.h.meta.start.solTransparent = TRUE],
                 res |-> IF token.da.src # NoSrc THEN token.da.src
                         ELSE <<"<", "n", "o", "i", "n", "c", "l", "u", "d", "e", ">">>]
           [] token.typeof = "mw:NoInclude/End" ->
                [w |-> w,
                 res |-> IF token.da.src # NoSrc THEN token.da.src
                         ELSE <<"<", "/", "n", "o", "i", "n", "c", "l", "u", "d", "e", ">">>]
           [] token.typeof \in {"mw:DiffMarker", "mw:Separator"} ->
                [w |-> w, res |-> Empty]
           [] OTHER ->
                serializeHTMLTag([w EXCEPT !.h.meta.start.solTransparent = FALSE], token)
    ELSE IF token.property # ""
    THEN IF token.property = "mw:PageProp/notoc"
         THEN [w |-> w, res |-> <<"n", "o", "t", "o", "c">>]
         ELSE [w |-> w, res |-> Empty]
    ELSE serializeHTMLTag(w, token)

(***************************************************************************)
(* WSP._getTokenHandler and WSP._serializeToken                            *)
(***************************************************************************)
\* tagHandlers.p.make: which handler a p token gets
pMake(w, token) ==
    LET prevToken == w.s.prevToken
    IN  IF ~(w.s.listStack # << >> /\ isListItem(prevToken))
              /\ prevToken.type \in {"undefined", "null"}
        THEN [w |-> Throw(w, "TypeError"), tag |-> "ignore"]
        ELSE IF \/ (w.s.listStack # << >> /\ isListItem(prevToken))
                \/ (prevToken.type = "TagTk" /\ prevToken.name = "td")
                \/ (w.s.ignorePTag /\ token.type = "EndTagTk")
        THEN [w |-> [w EXCEPT !.s.ignorePTag = ~@], tag |-> "ignore"]
        ELSE [w |-> w, tag |-> IF Truthy(w.s.singleLineMode) THEN "html" ELSE "p"]

\* the start/end entry a handler reference stands for, as the table is now
PartOf(w, ref) ==
    CASE ref.tag = "html" -> defaultHTMLTagHandler[ref.part]
      [] ref.tag = "ignore" -> IgnorePart
      [] ref.tag = "tplsrc" -> TemplateSrcPart
      [] ref.tag = "none" -> NoPart
      [] ref.tag = "comment" -> CommentPart
      [] OTHER -> w.h[ref.tag][ref.part]

\* the handler table entry _getTokenHandler picks: [w, tag]
selectHandler(w, token) ==
    IF \/ IsHTMLTag(token)
       \/ /\ token.type \in {"TagTk", "EndTagTk"}
          /\ DpEmpty(token.da)
          /\ token.name # "meta"
          /\ w.s.parentSTX = "html"
    THEN [w |-> w, tag |-> "html"]
    ELSE IF token.name \in DOMAIN w.h
    THEN IF token.name = "p" THEN pMake(w, token)
         ELSE [w |-> w, tag |-> token.name]
    ELSE [w |-> w, tag |-> "html"]
\* a start tag pushes the wikitext escape handler of the picked entry
pushEscapeHandler(sel, token) ==
    IF token.type \in {"TagTk", "SelfclosingTagTk"}
    THEN [w |-> [sel.w EXCEPT !.s.wteHandlerStack =
                    Append(@, IF sel.tag \in {"html", "ignore"} THEN Null
                              ELSE sel.w.h[sel.tag].wtEscapeHandler)],
          ref |-> [tag |-> sel.tag, part |-> "start"]]
    ELSE [w |-> sel.w, ref |-> [tag |-> sel.tag, part |-> "end"]]
getTokenHandler(w, token) ==
    IF token.da.src # NoSrc /\ token.typeof = "mw:TemplateSource"
    THEN [w |-> w, ref |-> [tag |-> "tplsrc", part |-> "start"]]
    ELSE pushEscapeHandler(selectHandler(w, token), token)

\* handler.handle(state, token) of the entry ref stands for
Handle(w, ref, token) ==
    CASE ref.tag = "html" /\ ref.part = "start" -> serializeHTMLTag(w, token)
      [] ref.tag = "html" /\ ref.part = "end" -> serializeHTMLEndTag(w, token)
      [] ref.tag = "tplsrc" -> [w |-> w, res |-> token.da.src]
      [] ref.tag = "body" -> [w |-> w, res |-> Empty]
      [] ref.tag = "ul" /\ ref.part = "start" -> listHandler(w, "ul", <<"*">>, token)
      [] ref.tag = "ul" /\ ref.part = "end" -> listEndHandler(w)
      [] ref.tag = "li" /\ ref.part = "start" -> listItemHandler(w, "li", Empty, token)
      [] ref.tag = "table" /\ ref.part = "start" -> tableStartHandler(w, token)
      [] ref.tag = "table" /\ ref.part = "end" -> tableEndHandler(w, token)
      [] ref.tag = "tr" /\ ref.part = "start" -> trStartHandler(w, token)
      [] ref.tag = "tr" /\ ref.part = "end" -> [w |-> w, res |-> Empty]
      [] ref.tag = "td" /\ ref.part = "start" -> tdStartHandler(w, token)
      [] ref.tag = "p" /\ ref.part = "start" -> pStartHandler(w, token)
      [] ref.tag = "p" /\ ref.part = "end" -> pEndHandler(w, token)
      [] ref.tag = "pre" /\ ref.part = "start" -> preStartHandler(w, token)
      [] ref.tag = "pre" /\ ref.part = "end" -> preEndHandler(w, token)
      [] ref.tag = "meta" /\ ref.part = "start" -> metaStartHandler(w, token)
      [] ref.tag = "b" /\ ref.part = "start" -> quoteStartHandler(w, <<"'", "'", "'">>)
      [] ref.tag = "b" /\ ref.part = "end" -> [w |-> w, res |-> <<"'", "'", "'">>]
      [] ref.tag = "i" /\ ref.part = "start" -> quoteStartHandler(w, <<"'", "'">>)
      [] ref.tag = "i" /\ ref.part = "end" -> [w |-> w, res |-> <<"'", "'">>]
      [] ref.tag = "h2" /\ ref.part = "start" -> openHeading(w, <<"=", "=">>)
      [] ref.tag = "h2" /\ ref.part = "end" -> closeHeading(w, <<"=", "=">>, token)
      [] OTHER -> [w |-> w, res |-> Empty]

\* Quick check of WSP.escapeWikiText: text without wikitext-special characters
\* and without a leading blank before a non-blank is returned unchanged
WtSpecial ==
    {"<", ">", "[", "]", "-", "+", "|", "'", "!", "=", "#", "*", ":", ";", "~", "{", "}"}
NeedsNoEscape(text) ==
    /\ \A i \in 1..Len(text) : text[i] \notin WtSpecial
    /\ ~(Len(text) >= 2 /\ text[1] \in {" ", "\t"} /\ ~IsSpace(text[2]))
escapedText(text) ==
    <<"<", "n", "o", "w", "i", "k", "i", ">">> \o text
        \o <<"<", "/", "n", "o", "w", "i", "k", "i", ">">>
\* the model's text alphabet stays inside the quick check
escapeWikiText(state, text) ==
    IF NeedsNoEscape(text) THEN text ELSE escapedText(text)

\* An emitNLs that buffers whether or not there is original wikitext
emitNLsBuffersAlways(w, nls, dontBuffer) ==
    IF w.s.separatorEmittedFromSrc THEN w
    ELSE LET sep == Buffered(w.s) \o nls
         IN  IF ~dontBuffer
             THEN [w EXCEPT !.s.bufferedSeparator = sep,
                            !.g.at = IF Buffered(w.s) = Empty THEN Len(w.c) ELSE @,
                            !.g.placed = @ + Len(nls)]
             ELSE emitSepChunk(w, sep)

emitNLs(w, nls, dontBuffer) ==
    IF w.s.separatorEmittedFromSrc THEN w
    ELSE LET sep == Buffered(w.s) \o nls
         IN  IF HasPageSrc(w.s) /\ ~dontBuffer
             THEN [w EXCEPT !.s.bufferedSeparator = sep,
                            !.g.at = IF Buffered(w.s) = Empty THEN Len(w.c) ELSE @,
                            !.g.placed = @ + Len(nls)]
             ELSE emitSepChunk(w, sep)

\* A value a handler returned that is a String (token.dataAttribs.src of a
\* token without src is undefined)
IsString(res) == res # NoSrc
\* t.replace(/\n(?!$)/g, '\n ') of the indent-pre text handler
RECURSIVE indentNLs(_)
indentNLs(t) ==
    IF Len(t) <= 1 THEN t
    ELSE IF Head(t) = NL THEN <<NL, " ">> \o indentNLs(Tail(t))
    ELSE <<Head(t)>> \o indentNLs(Tail(t))
\* state.textHandler(currState, t) as tagHandlers.pre installs it; calling
\* replace on a value that is no String throws
indentPreText(currState, t) ==
    IF currState.onStartOfLine THEN <<" ">> \o indentNLs(t) ELSE indentNLs(t)
textHandled(r, textHandler) ==
    IF textHandler = Null \/ r.w.threw THEN r
    ELSE IF ~IsString(r.res) THEN [w |-> Throw(r.w, "TypeError"), res |-> Empty]
    ELSE [w |-> r.w, res |-> indentPreText(r.w.s, r.res)]

\* A start tag case that runs the handler of an ignored entry too
startTagHandledAlways(g, token) ==
    IF g.w.threw THEN [w |-> g.w, res |-> Empty]
    ELSE IF PartOf(g.w, g.ref).handle
    THEN Handle([g.w EXCEPT !.s.prevTagToken = g.w.s.currTagToken,
                            !.s.currTagToken = token],
                g.ref, token)
    ELSE [w |-> [g.w EXCEPT !.s.prevTagToken = g.w.s.currTagToken,
                            !.s.currTagToken = token],
          res |-> Empty]

\* case pd.TagTk, pd.SelfclosingTagTk, g being what _getTokenHandler gave:
\* the handler runs unless the entry says ignore: [w, res]
startTagHandled(g, token) ==
    IF g.w.threw \/ PartOf(g.w, g.ref).ignore THEN [w |-> g.w, res |-> Empty]
    ELSE IF PartOf(g.w, g.ref).handle
    THEN Handle([g.w EXCEPT !.s.prevTagToken = g.w.s.currTagToken,
                            !.s.currTagToken = token],
                g.ref, token)
    ELSE [w |-> [g.w EXCEPT !.s.prevTagToken = g.w.s.currTagToken,
                            !.s.currTagToken = token],
          res |-> Empty]
startTagSwitched(r, g, token) ==
    [w |-> IF token.type = "SelfclosingTagTk" /\ ~r.w.threw
           THEN [r.w EXCEPT !.s.wteHandlerStack = Pop(@)]
           ELSE r.w,
     res |-> r.res, ref |-> g.ref,
     suppressOutput |-> ~PartOf(g.w, g.ref).ignore /\ token.da.autoInsertedStart]
\* textHandler is state.textHandler as it was when _serializeToken began
startTagSwitch(g, token, textHandler) ==
    startTagSwitched(IF PartOf(g.w, g.ref).ignore THEN startTagHandled(g, token)
                     ELSE textHandled(startTagHandled(g, token), textHandler),
                     g, token)

\* case pd.EndTagTk
endTagEntered(w, part, token) ==
    [w EXCEPT !.s.wteHandlerStack = Pop(@),
              !.s.prevTagToken = w.s.currTagToken,
              !.s.currTagToken = token,
              !.s.singleLineMode = IF part.singleLine < 0 /\ Truthy(@)
                                   THEN JAdd(@, -1) ELSE @]
endTagHandled(g, token) ==
    IF g.w.threw THEN [w |-> g.w, res |-> Empty]
    ELSE IF PartOf(g.w, g.ref).ignore
    THEN [w |-> [g.w EXCEPT !.s.wteHandlerStack = Pop(@)], res |-> Empty]
    ELSE IF PartOf(g.w, g.ref).handle
    THEN Handle(endTagEntered(g.w, PartOf(g.w, g.ref), token), g.ref, token)
    ELSE [w |-> endTagEntered(g.w, PartOf(g.w, g.ref), token), res |-> Empty]
endTagSwitched(r, g, token) ==
    [w |-> r.w, res |-> r.res, ref |-> g.ref,
     suppressOutput |-> ~PartOf(g.w, g.ref).ignore /\ token.da.autoInsertedEnd]
endTagSwitch(g, token) == endTagSwitched(endTagHandled(g, token), g, token)

\* case String, res being the escaped text after the text handler
stringSwitch(w, res) ==
    [w |-> IF StartsWithBlankNL(res)
           THEN [w EXCEPT !.s.bufferedSeparator = NullStr,
                          !.g.discarded = @ + Len(Buffered(w.s))]
           ELSE w,
     res |-> res, ref |-> [tag |-> "none", part |-> "start"],
     suppressOutput |-> FALSE]

\* the switch on token.constructor: [w, res, ref, suppressOutput]
TokenSwitch(w, token) ==
    CASE token.type \in {"TagTk", "SelfclosingTagTk"} ->
            startTagSwitch(getTokenHandler(w, token), token, w.s.textHandler)
      [] token.type = "EndTagTk" ->
            endTagSwitch(getTokenHandler(w, token), token)
      [] token.type = "String" ->
            stringSwitch(w, IF w.s.textHandler = Null
                            THEN escapeWikiText(w.s, token.text)
                            ELSE indentPreText(w.s, escapeWikiText(w.s, token.text)))
      [] token.type = "CommentTk" ->
            [w |-> w, res |-> CommentOpen \o token.text \o CommentClose,
             ref |-> [tag |-> "comment", part |-> "start"],
             suppressOutput |-> FALSE]
      [] token.type = "EOFTk" ->
            [w |-> chunkCB(w, Empty, Null), res |-> Empty,
             ref |-> [tag |-> "none", part |-> "start"], suppressOutput |-> FALSE]

\* The rest of _serializeToken works on t = [w, res, ref, suppressOutput];
\* handler is the entry t.ref stands for, as it is after handle ran.
\* start-of-line processing
startOfLine(t) ==
    IF /\ PartOf(t.w, t.ref).startsLine
       /\ ~t.w.s.onStartOfLine
       /\ ~t.suppressOutput
       /\ ~Truthy(t.w.s.singleLineMode)
    THEN [t EXCEPT !.w = emitNLs(t.w, <<NL>>, FALSE)]
    ELSE t
\* content processing
contentProcessed(t) ==
    IF ~HasPageSrc(t.w.s) /\ Truthy(t.w.s.singleLineMode)
         /\ ~PartOf(t.w, t.ref).isTemplateSrc
    THEN [t EXCEPT !.res = StripNL(t.res)]
    ELSE t
\* state.chunkCB( suppressOutput ? '' : res ), then the newline state
lineState(state, res, handler) ==
    IF EndsWithNL(res)
    THEN [state EXCEPT !.onNewline = TRUE, !.onStartOfLine = TRUE]
    ELSE IF res # Empty
    THEN [state EXCEPT !.onNewline = FALSE,
                       !.onStartOfLine = IF handler.solTransparent THEN @ ELSE FALSE]
    ELSE state
chunkEmitted(t) ==
    [t EXCEPT !.w = [chunkCB(t.w, IF t.suppressOutput THEN Empty ELSE t.res, Null)
                        EXCEPT !.s = lineState(t.w.s, t.res, PartOf(t.w, t.ref))]]
\* newlines/separators after the token
afterToken(t) ==
    IF PartOf(t.w, t.ref).emitsNL
    THEN [t EXCEPT !.w = emitNLs(t.w, <<NL>>, TRUE)]
    ELSE IF t.w.s.bufferedSeparator \notin {NullStr, Empty}
    THEN [t EXCEPT !.w = emitSepChunk(t.w, t.w.s.bufferedSeparator)]
    ELSE t
\* end-of-line processing
endOfLine(t) ==
    IF PartOf(t.w, t.ref).endsLine /\ ~t.w.s.onNewline
    THEN [t EXCEPT !.w = emitNLs(t.w, <<NL>>, FALSE)]
    ELSE t
singleLineCounted(t) ==
    IF PartOf(t.w, t.ref).singleLine > 0
    THEN [t EXCEPT !.w.s.singleLineMode = JAdd(@, PartOf(t.w, t.ref).singleLine)]
    ELSE t
\* a res that is undefined, null or no String is replaced by ''
stringResult(t) == IF IsString(t.res) THEN t ELSE [t EXCEPT !.res = Empty]
\* what follows the switch, unless the switch threw
tokenSwitched(t) ==
    IF t.w.threw THEN t.w
    ELSE [singleLineCounted(endOfLine(afterToken(chunkEmitted(
              contentProcessed(startOfLine(stringResult(t))))))).w
            EXCEPT !.s.separatorEmittedFromSrc = FALSE]

serializeToken(w, token) ==
    tokenSwitched(TokenSwitch([w EXCEPT !.s.prevToken = w.s.curToken,
                                        !.s.curToken = token],
                              token))

(***************************************************************************)
(* The input: node kinds the DOM is drawn from                             *)
(***************************************************************************)
\* env.page.src of a call that has original wikitext
PageSrc == <<"a", NL, "b">>
\* dsr values of elements of such a call: the first and the last character
\* of the page, the whole page, and a dsr whose end offset is null
DsrFirst == Dsr(0, 1, 1, 0)
DsrLast == Dsr(2, 3, 0, 1)
DsrWhole == Dsr(0, 3, 1, 1)
DsrNoEnd == DsrNullAt(Dsr(0, 0, 0, 0), 1)
\* text nodes: all pass the quick check of escapeWikiText
TextChoices == {<<"x">>, <<NL, "x">>}

BodyNode(dsr) == Element("body", "", "", "", DP("", dsr, NoSrc))
ContainerNames == {"h2", "p", "ul", "li", "table", "tbody", "tr", "td", "pre", "b", "i"}
VoidNames == {"meta"}
TemplateAbout == "#mwt1"
TemplateSrc == <<"{", "{", "t", "}", "}">>
LinkNode == Element("a", "", "", "", EmptyDP)
\* a figure: figure > a > img, then a figcaption holding one text node; its
\* data-parsoid optionList holds a caption option or no option at all
CaptionOption == [k |-> "caption", v |-> NullStr]
FigureNode(optionList) ==
    [Element("figure", "", "", "", EmptyDP) EXCEPT !.dp.optionList = optionList,
                                                   !.content = "img"]
\* a figure without an img as first descendant: it has no children
\* ("none"), its first child has no children ("leaf") or its first child's
\* first child is a text node ("text")
FigureShapes == {"none", "leaf", "text"}
MalformedFigure(shape) ==
    [Element("figure", "", "", "", EmptyDP) EXCEPT !.content = shape]
\* a figure whose caption holds bold and italic elements instead of one text
\* node: x<b></b> ("xb"), or <b></b><i></i> ("bi")
CaptionShapes == {"xb", "bi"}
QuoteFigure(shape) == [FigureNode(<<CaptionOption>>) EXCEPT !.caption = shape]
FigureResource == <<"F">>
FigureCaption == <<"x">>
BadJSONNode == [Element("span", "", "", "", EmptyDP) EXCEPT !.badJSON = TRUE]
NoNode == [TextNode(Empty) EXCEPT !.nodeType = "none", !.nodeName = "#none"]
Container(name, dsr) == Element(name, "", "", "", DP("", dsr, NoSrc))
NoIncludeMeta == Element("meta", "mw:NoInclude", "", "", EmptyDP)
\* an includeonly marker; src is the data-parsoid src, NoSrc when it has none
IncludeOnlyMeta(src) == Element("meta", "mw:IncludeOnly", "", "", DP("", NoDsr, src))
IncludeOnlySrc == <<"<", "i", ">">>
PagePropMeta == Element("meta", "", "mw:PageProp/notoc", "", EmptyDP)
TemplateNode ==
    Element("span", "mw:Object/Template", "", TemplateAbout,
            DP("", NoDsr, TemplateSrc))
\* a later element of the same template's output: it carries the about id only
TemplateSibling == Element("span", "", "", TemplateAbout, EmptyDP)

\* the meta setupSeparator puts in the place of a run of comments between
\* element siblings; the run is removed from the DOM
SeparatorMeta == Element("meta", "mw:Separator", "", "", EmptyDP)

\* an element written in HTML syntax in the source
HtmlContainer(name) == Element(name, "", "", "", DP("html", NoDsr, NoSrc))

\* an element whose start or end tag the parser inserted
AutoInserted(name, start, end) ==
    [Container(name, NoDsr) EXCEPT !.dp.autoInsertedStart = start,
                                   !.dp.autoInsertedEnd = end]

\* The DOMs of a call are drawn from one family of node kinds
Families == {"inline", "block", "template", "auto", "pre", "para", "html", "tbody",
             "quote"}
ListFamilies == {"list"}
\* DOMs of family "para" nest one level deeper, the nested lists of family
\* "list" have bounds of their own
DepthBound(fam) ==
    CASE fam = "para" -> MaxDepth + 1
      [] fam = "list" -> MaxListDepth
      [] OTHER -> MaxDepth
NodeBound(fam) == IF fam = "list" THEN MaxListNodes ELSE MaxNodes
CallFamilies == {"calls"}
\* the families whose DOM is recorded as it is drawn
RecordedFamilies == CallFamilies \cup ListFamilies
NodeChoices(family, withSrc) ==
    CASE family = "inline" ->
            {TextNode(t) : t \in TextChoices}
            \cup {CommentNode(<<"c">>), LinkNode,
                  FigureNode(<<CaptionOption>>), FigureNode(<< >>)}
            \cup {MalformedFigure(s) : s \in FigureShapes}
            \cup {Container(n, d) :
                    n \in {"h2", "p"},
                    d \in IF withSrc THEN {NoDsr, DsrFirst, DsrLast, DsrNoEnd}
                          ELSE {NoDsr}}
      [] family = "block" ->
            {TextNode(<<"x">>)}
            \cup {Container(n, NoDsr) : n \in {"ul", "li", "td", "table", "tr"}}
            \cup (IF withSrc
                  THEN {Container("table", DsrWhole), Container("tr", DsrLast)}
                  ELSE {})
      [] family = "template" ->
            {TextNode(<<"x">>), NoIncludeMeta, PagePropMeta, TemplateNode,
             TemplateSibling, BadJSONNode, Container("h2", NoDsr)}
      [] family = "auto" ->
            {TextNode(<<"x">>)}
            \cup {AutoInserted(n, s, ~s) : n \in {"h2", "p", "li"}, s \in BOOLEAN}
      [] family = "pre" ->
            {TextNode(t) : t \in TextChoices}
            \cup {Container("pre", NoDsr), Container("p", NoDsr),
                  IncludeOnlyMeta(NoSrc), IncludeOnlyMeta(IncludeOnlySrc)}
      [] family = "para" ->
            {TextNode(<<"x">>)}
            \cup {Container(n, NoDsr) : n \in {"li", "td", "p"}}
      [] family = "html" ->
            {TextNode(<<"x">>), HtmlContainer("table"), HtmlContainer("ul")}
            \cup {Container(n, NoDsr) : n \in {"tr", "td", "li"}}
      [] family = "tbody" ->
            {Container("table", NoDsr), HtmlContainer("table"),
             Container("tbody", NoDsr), HtmlContainer("tbody"),
             Container("tr", NoDsr)}
      [] family = "quote" ->
            {TextNode(<<"x">>), Container("b", NoDsr), Container("i", NoDsr)}
            \cup {QuoteFigure(s) : s \in CaptionShapes}
      [] family = "list" ->
            {TextNode(<<"x">>), Container("ul", NoDsr), Container("li", NoDsr)}
      [] family = "calls" ->
            {NoIncludeMeta, PagePropMeta, Container("h2", NoDsr)}

\* Util.isBlockTag, from the block list of the specification
isBlockTag(name) ==
    name \in {"div", "p", "h2", "ul", "ol", "dl", "table", "tr", "td", "th",
              "pre", "hr", "blockquote", "figure", "figcaption", "form", "fieldset"}
isMarkerMeta(node, type) ==
    node.nodeType = "element" /\ node.nodeName = "meta" /\ node.typeof = type
isTemplateStart(node) == node.typeof = "mw:Object/Template"
\* WSP.getDOMHandler gives a node handler (tagHandlers.a.node, .figure.node)
hasDOMHandler(node) == node.nodeName \in {"a", "figure"} /\ node.dp.stx # "html"

(***************************************************************************)
(* Variables                                                               *)
(***************************************************************************)
VARIABLES
    state,          \* the state record of the running serializeDOM call
    chunks,         \* chunks passed to the caller's chunk callback in this call
    tagHandlers,    \* WSP.tagHandlers, shared by all calls of the process
    pc,             \* where serializeDOM is
    stack,          \* open elements of the recursive walk, innermost last
    pending,        \* the child the walk is about to serialize
    calls,          \* serializeDOM calls started
    nodes,          \* nodes drawn so far
    exception,      \* the exception raised in this call, if any
    errCBArgs,      \* the exceptions env.errCB was called with in this call
    finalCBCalls,   \* finalCB invocations of this call
    rethrown,       \* the exception the call threw to its caller, if any
    family,         \* the family the DOM of this call is drawn from
    history,        \* history of the separator buffer in this call
    lastSep,        \* the emitSeparator call the last step made, if any
    endedAt,        \* number of chunks passed on when finalCB was invoked
    dom,            \* the DOM of this call as drawn so far (family "calls")
    first,          \* DOM and chunks of the first finished call (family "calls")
    argv,           \* the options of the command line tool (tests/parse.js)
    tool,           \* the command line tool: where it is and what it wrote
    link,           \* a link node handed to WSP.linkHandler and what it gave
    figure,         \* a figure's option list handed to WSP.figureHandler
    dispatcher,     \* a QueueDispatcher, its threads and its receiver
    pipelines,      \* the pipeline cache of a ParserPipelineFactory and its users
    request         \* a POST request of the web service that serializes a DOM

serializerVars ==
    <<state, chunks, tagHandlers, pc, stack, pending, calls, nodes,
      exception, errCBArgs, finalCBCalls, rethrown, family, history, lastSep,
      endedAt, dom, first>>
laterVars == <<figure, dispatcher, pipelines, request>>
toolVars == <<argv, tool, link, laterVars>>
vars == <<serializerVars, toolVars>>

W == World(state, chunks, tagHandlers, history)

NoLastSep == [type |-> 0, dsr1 |-> NoDsr, dsr2 |-> NoDsr, nchunks |-> 0,
              bufferedSeparator |-> NullStr, separatorEmittedFromSrc |-> FALSE,
              onNewline |-> FALSE, onStartOfLine |-> FALSE]
\* an emitSeparator(n1, n2, sepType) call with the state it started from
SepCall(n1, n2, sepType) ==
    [type |-> sepType, dsr1 |-> n1.dp.dsr, dsr2 |-> n2.dp.dsr,
     nchunks |-> Len(chunks),
     bufferedSeparator |-> state.bufferedSeparator,
     separatorEmittedFromSrc |-> state.separatorEmittedFromSrc,
     onNewline |-> state.onNewline, onStartOfLine |-> state.onStartOfLine]
NoFirst == [set |-> FALSE, dom |-> << >>, chunks |-> << >>]

\* store the world an operation left; a thrown exception goes to the catch
Store(w, next, sep) ==
    /\ state' = w.s
    /\ chunks' = w.c
    /\ tagHandlers' = w.h
    /\ history' = w.g
    /\ lastSep' = sep
    /\ pc' = IF w.threw THEN "catch" ELSE next
    /\ exception' = IF w.threw THEN w.exception ELSE exception
Commit(w, next) == Store(w, next, NoLastSep)

\* the command line tool is not running
NoArgv == [wt2html |-> FALSE, html2wt |-> FALSE, wt2wt |-> FALSE,
           html2html |-> FALSE, selser |-> FALSE, linearmodel |-> FALSE]
NoTool == [pc |-> "none"]
NoLink == [pc |-> "none"]
\* no figure, dispatcher, pipeline factory or request is at work
InitLater ==
    /\ figure = [pc |-> "none"]
    /\ dispatcher = [pc |-> "none"]
    /\ pipelines = [pc |-> "none"]
    /\ request = [pc |-> "none"]

InitSerializer ==
    /\ state = InitialState(NoSrc)
    /\ chunks = << >>
    /\ tagHandlers = TagHandlers
    /\ pc = "idle"
    /\ stack = << >>
    /\ pending = NoNode
    /\ calls = 0
    /\ nodes = 0
    /\ exception = NoException
    /\ errCBArgs = << >>
    /\ finalCBCalls = 0
    /\ rethrown = NoException
    /\ family = "inline"
    /\ history = NoHistory
    /\ lastSep = NoLastSep
    /\ endedAt = 0
    /\ dom = << >>
    /\ first = NoFirst

Init ==
    /\ InitSerializer
    /\ argv = NoArgv
    /\ tool = NoTool
    /\ link = NoLink
    /\ InitLater

(***************************************************************************)
(* WSP.serializeDOM                                                        *)
(***************************************************************************)
\* Entry: clone the initial state, preprocess the DOM, install the chunk
\* callback and start the walk at the root.  preprocessThrows: the DOM holds
\* a mw:objectAttr meta whose data-parsoid is not JSON.
SerializeDOM(pageSrc, preprocessThrows, fam) ==
    /\ UNCHANGED toolVars
    /\ pc \in {"idle", "done", "rethrown"}
    /\ calls < MaxCalls
    /\ calls' = calls + 1
    /\ family' = fam
    /\ state' = InitialState(pageSrc)
    /\ chunks' = << >>
    /\ exception' = IF preprocessThrows THEN "SyntaxError" ELSE NoException
    /\ errCBArgs' = << >>
    /\ finalCBCalls' = 0
    /\ rethrown' = NoException
    /\ stack' = << >>
    /\ history' = NoHistory
    /\ lastSep' = NoLastSep
    /\ endedAt' = 0
    /\ dom' = << >>
    /\ nodes' = IF fam \in CallFamilies THEN 0 ELSE nodes
    /\ pending' = IF preprocessThrows THEN NoNode
                  ELSE BodyNode(IF pageSrc = NoSrc THEN NoDsr
                                ELSE Dsr(0, Len(pageSrc), 0, 0))
    /\ pc' = IF preprocessThrows THEN "catch" ELSE "walk"
    /\ UNCHANGED <<tagHandlers, first>>

\* A catch clause that reports the exception and then swallows it
CatchSwallows ==
    /\ UNCHANGED toolVars
    /\ pc = "catch"
    /\ errCBArgs' = Append(errCBArgs, exception)
    /\ rethrown' = NoException
    /\ pc' = "rethrown"
    /\ stack' = << >>
    /\ pending' = NoNode
    /\ lastSep' = NoLastSep
    /\ UNCHANGED <<state, chunks, tagHandlers, calls, nodes, exception, finalCBCalls,
                   family, history, endedAt, dom, first>>

\* catch (e) { state.env.errCB(e); throw e; }
Catch ==
    /\ UNCHANGED toolVars
    /\ pc = "catch"
    /\ errCBArgs' = Append(errCBArgs, exception)
    /\ rethrown' = exception
    /\ pc' = "rethrown"
    /\ stack' = << >>
    /\ pending' = NoNode
    /\ lastSep' = NoLastSep
    /\ UNCHANGED <<state, chunks, tagHandlers, calls, nodes, exception, finalCBCalls,
                   family, history, endedAt, dom, first>>

\* this._serializeToken( state, new pd.EOFTk() )
SerializeEOF ==
    /\ UNCHANGED toolVars
    /\ pc = "eof"
    /\ Commit(serializeToken(W, EOFTk), "final")
    /\ UNCHANGED <<stack, pending, calls, nodes, errCBArgs, finalCBCalls,
                   rethrown, family, endedAt, dom, first>>

\* A finalCB that runs before the EOF token has been serialized
FinalCBBeforeEOF ==
    /\ UNCHANGED toolVars
    /\ pc \in {"eof", "final"}
    /\ finalCBCalls' = finalCBCalls + 1
    /\ endedAt' = Len(chunks)
    /\ pc' = "done"
    /\ first' = IF family \in CallFamilies /\ ~first.set
                THEN [set |-> TRUE, dom |-> dom, chunks |-> chunks]
                ELSE first
    /\ lastSep' = NoLastSep
    /\ UNCHANGED <<state, chunks, tagHandlers, stack, pending, calls, nodes,
                   exception, errCBArgs, rethrown, family, history, dom>>

\* finalCB(); return
FinalCB ==
    /\ UNCHANGED toolVars
    /\ pc = "final"
    /\ finalCBCalls' = finalCBCalls + 1
    /\ endedAt' = Len(chunks)
    /\ pc' = "done"
    /\ first' = IF family \in CallFamilies /\ ~first.set
                THEN [set |-> TRUE, dom |-> dom, chunks |-> chunks]
                ELSE first
    /\ lastSep' = NoLastSep
    /\ UNCHANGED <<state, chunks, tagHandlers, stack, pending, calls, nodes,
                   exception, errCBArgs, rethrown, family, history, dom>>

(***************************************************************************)
(* WSP._serializeDOM, unrolled                                             *)
(***************************************************************************)
Top == stack[Len(stack)]
Depth == Len(stack)

\* The DOM the walk is given: the output of a template is one element with
\* typeof mw:Object followed by siblings that carry its about id, text and
\* comments possibly between them; run tells whether the children drawn so
\* far hold no template ("none"), end inside its output ("open") or after it
templateRun(run, child) ==
    IF isTemplateStart(child) THEN "open"
    ELSE IF child.nodeType # "element" \/ child.about # "" THEN run
    ELSE IF run = "open" THEN "closed"
    ELSE run

\* The DOMs of nested lists: the body holds lists, a list holds items and
\* lists, an item holds text and lists, and no two text nodes are adjacent
ListChild(frame, child) ==
    CASE frame.node.nodeName = "body" -> child.nodeName = "ul"
      [] frame.node.nodeName = "ul" -> child.nodeName \in {"li", "ul"}
      [] OTHER -> \/ child.nodeName = "ul"
                  \/ child.nodeType = "text" /\ frame.prevSibling.nodeType # "text"

\* preprocessDOM with original source: a comment that follows an element or
\* the start of the children with no text between is removed when an element
\* follows it, or when the children end after an element; so the walk meets
\* such a comment only before text or as the last of children without
\* element, and meets the separator meta only before an element or the end
CommentInSepRun(frame, withSrc) ==
    withSrc /\ frame.prevSibling.nodeType = "comment" /\ ~frame.waitForSentinel
Preprocessed(frame, child, withSrc) ==
    /\ CommentInSepRun(frame, withSrc) => child.nodeType # "element"
    /\ isMarkerMeta(frame.prevSibling, "mw:Separator") => child.nodeType = "element"
PreprocessedEnd(frame, withSrc) ==
    (CommentInSepRun(frame, withSrc) \/ isMarkerMeta(frame.prevSibling, "mw:Separator"))
        => frame.prevEltChild # NoNode
\* waitForSentinel of the normalization loop after child
waitsForSentinel(wait, child) ==
    CASE child.nodeType = "text" -> TRUE
      [] child.nodeType = "element" -> FALSE
      [] OTHER -> wait

\* The child loop meets the meta of a folded comment and passes over it
SkipSeparator ==
    /\ UNCHANGED toolVars
    /\ pc = "walk"
    /\ stack # << >>
    /\ pending = NoNode
    /\ ~Top.done
    /\ family = "inline"
    /\ HasPageSrc(state)
    /\ Top.node.nodeName \notin VoidNames
    /\ nodes < NodeBound(family)
    /\ ~Top.waitForSentinel
    /\ Top.prevSibling.nodeType \in {"none", "element"}
    /\ ~isMarkerMeta(Top.prevSibling, "mw:Separator")
    /\ nodes' = nodes + 1
    /\ history' = [history EXCEPT !.comments = @ + 1, !.folded = @ + 1]
    /\ stack' = [stack EXCEPT ![Len(stack)].prevSibling = SeparatorMeta]
    /\ UNCHANGED <<state, chunks, tagHandlers, pc, pending, calls, exception,
                   errCBArgs, finalCBCalls, rethrown, family, lastSep, endedAt,
                   dom, first>>

\* The child loop picks the next child: separator between the previous
\* element and this one, then prevEltChild is updated
NextChild(child) ==
    /\ UNCHANGED toolVars
    /\ pc = "walk"
    /\ stack # << >>
    /\ pending = NoNode
    /\ ~Top.done
    /\ Top.node.nodeName \notin VoidNames
    /\ nodes < NodeBound(family)
    /\ Preprocessed(Top, child, HasPageSrc(state))
    /\ family \in ListFamilies => ListChild(Top, child)
    /\ child.nodeName \in ContainerNames => Depth < DepthBound(family)
    /\ isTemplateStart(child) => (Depth = 1 /\ Top.tpl = "none")
    /\ (child.about # "" /\ ~isTemplateStart(child)) => Top.tpl = "open"
    /\ nodes' = nodes + 1
    /\ pending' = child
    /\ dom' = IF family \in RecordedFamilies THEN Append(dom, child) ELSE dom
    /\ LET skipped ==
               \/ child.nodeType = "comment"
               \/ (child.nodeType = "element"
                   /\ state.activeTemplateId \notin {Null, ""}
                   /\ state.activeTemplateId = child.about)
           n1 == IF Top.prevEltChild = NoNode THEN Top.node ELSE Top.prevEltChild
           sepType == IF Top.prevEltChild = NoNode THEN START_SEP ELSE IE_SEP
           called == /\ ~skipped
                     /\ child.nodeType = "element"
                     /\ n1.nodeType = "element"
                     /\ Top.node.nodeName # "pre"
           seen == IF child.nodeType = "comment"
                   THEN [W EXCEPT !.g.comments = @ + 1] ELSE W
       IN  /\ Store(IF called THEN emitSeparator(W, n1, child, sepType) ELSE seen,
                    "walk",
                    IF called THEN SepCall(n1, child, sepType) ELSE NoLastSep)
           /\ stack' = [stack EXCEPT
                          ![Len(stack)].prevEltChild = IF skipped THEN @ ELSE child,
                          ![Len(stack)].prevSibling = child,
                          ![Len(stack)].waitForSentinel = waitsForSentinel(@, child),
                          ![Len(stack)].items =
                              IF child.nodeName \in {"li", "dt", "dd"} THEN @ + 1 ELSE @,
                          ![Len(stack)].lists =
                              IF child.nodeName \in {"ul", "ol", "dl"} THEN @ + 1 ELSE @,
                          ![Len(stack)].tpl = templateRun(@, child)]
    /\ UNCHANGED <<calls, errCBArgs, finalCBCalls, rethrown, family, endedAt,
                   first>>

\* the head of _serializeDOM for an element: an element of the active
\* template's output is skipped, the first element of a template's output is
\* replaced by the template's source
isTemplateContent(st, node) ==
    st.activeTemplateId \notin {Null, ""} /\ st.activeTemplateId = node.about
skipsElement(st, node) == isTemplateContent(st, node) \/ isTemplateStart(node)
dummyToken(node) ==
    Tk("SelfclosingTagTk", "meta", "mw:TemplateSource", "",
       DP("", NoDsr, node.dp.src), Empty)
serializeTemplate(w, node) ==
    IF isTemplateContent(w.s, node) THEN w
    ELSE serializeToken([w EXCEPT !.s.activeTemplateId = node.about],
                        dummyToken(node))
\* any other element ends the active template
elementEntered(w) == [w EXCEPT !.s.activeTemplateId = Null]

\* if ( state.selser.serializeInfo === null ) { ...; state.chunkCB('', ...) }
\* (the node's data has no parsoid-serialize entry: serializeInfo is undefined)
announceSerializeInfo(w) ==
    IF w.s.selser.serializeInfo = Null
    THEN chunkCB([w EXCEPT !.s.selser.serializeInfo = "undefined"], Empty, Null)
    ELSE w
\* if ( serializeInfo !== null ) { state.selser.serializeInfo = null; }
resetSerializeInfo(w, serializeInfo) ==
    IF serializeInfo # Null THEN [w EXCEPT !.s.selser.serializeInfo = Null] ELSE w

\* An element of template output: skipped, or replaced by its source
SerializeTemplateContent ==
    /\ UNCHANGED toolVars
    /\ pc = "walk"
    /\ pending.nodeType = "element"
    /\ ~pending.badJSON
    /\ skipsElement(state, pending)
    /\ Commit(serializeTemplate(W, pending), IF stack = << >> THEN "eof" ELSE "walk")
    /\ pending' = NoNode
    /\ UNCHANGED <<stack, calls, nodes, errCBArgs, finalCBCalls, rethrown,
                   family, endedAt, dom, first>>

\* JSON.parse of a malformed data-parsoid throws
SerializeMalformed ==
    /\ UNCHANGED toolVars
    /\ pc = "walk"
    /\ pending.nodeType = "element"
    /\ pending.badJSON
    /\ ~skipsElement(state, pending)
    /\ Commit(Throw(elementEntered(W), "SyntaxError"), "walk")
    /\ pending' = NoNode
    /\ UNCHANGED <<stack, calls, nodes, errCBArgs, finalCBCalls, rethrown,
                   family, endedAt, dom, first>>

\* the local serializeInfo of _serializeDOM: undefined when this element set
\* state.selser.serializeInfo, else null
serializeInfoOf(st) == IF st.selser.serializeInfo = Null THEN "undefined" ELSE Null

\* what follows the start token: parentSTX, then the previous tokens are
\* saved and cleared for the children
startTagSerialized(w, node) ==
    IF w.threw THEN w
    ELSE [w EXCEPT !.s.parentSTX =
                       IF \/ ~DpEmpty(node.dp)
                          \/ node.nodeName \in {"table", "ul", "ol", "dl"}
                          \/ node.nodeName \notin {"tbody", "tr", "td", "li", "dd", "dt"}
                       THEN IF node.nodeName = "p" \/ ~isBlockTag(node.nodeName)
                            THEN "" ELSE node.dp.stx
                       ELSE @,
                   !.s.prevToken = NullTk,
                   !.s.prevTagToken = NullTk]
\* the handler entry _serializeToken gets from _getTokenHandler for token
handlerOf(w, token) ==
    getTokenHandler([w EXCEPT !.s.prevToken = w.s.curToken, !.s.curToken = token],
                    token).ref.tag
\* the frame of an open element: the locals of its _serializeDOM call,
\* listStack and singleLineMode as they were before its start token, and the
\* handler entry its start token got
Frame(node, before, after, handler) ==
    [node |-> node, prevEltChild |-> NoNode, prevSibling |-> NoNode,
     waitForSentinel |-> FALSE,
     tpl |-> "none", startHandler |-> handler, items |-> 0, lists |-> 0,
     oldPrevToken |-> after.prevToken,
     oldPrevTagToken |-> after.prevTagToken,
     serializeInfo |-> serializeInfoOf(before),
     parentSTX |-> before.parentSTX,
     preListStack |-> before.listStack,
     preSingleLineMode |-> before.singleLineMode,
     done |-> FALSE]
startTokenSerialized(w, node) ==
    serializeToken(announceSerializeInfo(elementEntered(w)), TagTk(node))

\* Token-based serialization, first half: the start token, then the walk
\* descends into the children
SerializeStartTag ==
    /\ UNCHANGED toolVars
    /\ pc = "walk"
    /\ pending.nodeType = "element"
    /\ ~pending.badJSON
    /\ ~skipsElement(state, pending)
    /\ ~hasDOMHandler(pending)
    /\ Commit(startTagSerialized(startTokenSerialized(W, pending), pending), "walk")
    /\ stack' = Append(stack,
                        Frame(pending, state, startTokenSerialized(W, pending).s,
                              handlerOf(announceSerializeInfo(elementEntered(W)),
                                        TagTk(pending))))
    /\ pending' = NoNode
    /\ UNCHANGED <<calls, nodes, errCBArgs, finalCBCalls, rethrown, family,
                   endedAt, dom, first>>

\* After the last child: separator between the last element child and the
\* end of this element
EndChildren ==
    /\ UNCHANGED toolVars
    /\ pc = "walk"
    /\ stack # << >>
    /\ pending = NoNode
    /\ ~Top.done
    /\ PreprocessedEnd(Top, HasPageSrc(state))
    /\ LET called == Top.prevEltChild.nodeType = "element"
       IN  Store(IF called THEN emitSeparator(W, Top.prevEltChild, Top.node, END_SEP)
                 ELSE W,
                 "walk",
                 IF called THEN SepCall(Top.prevEltChild, Top.node, END_SEP)
                 ELSE NoLastSep)
    /\ stack' = [stack EXCEPT ![Len(stack)].done = TRUE]
    /\ dom' = IF family \in RecordedFamilies THEN Append(dom, NoNode) ELSE dom
    /\ UNCHANGED <<pending, calls, nodes, errCBArgs, finalCBCalls, rethrown,
                   family, endedAt, first>>

endTagSerialized(w, serializeInfo) ==
    IF w.threw THEN w ELSE resetSerializeInfo(w, serializeInfo)

\* Token-based serialization, second half: reset the parent state, then the
\* end token.  The saved parentSTX is read from state.parentST1X, a property
\* the state does not have, so undefined is what gets restored.
SerializeEndTag ==
    /\ UNCHANGED toolVars
    /\ pc = "walk"
    /\ stack # << >>
    /\ pending = NoNode
    /\ Top.done
    /\ Commit(endTagSerialized(
                  serializeToken([W EXCEPT !.s.prevTagToken = Top.oldPrevTagToken,
                                           !.s.prevToken = Top.oldPrevToken,
                                           !.s.parentSTX = ""],
                                 EndTagTk(Top.node)),
                  Top.serializeInfo),
              IF Len(stack) = 1 THEN "eof" ELSE "walk")
    /\ stack' = Pop(stack)
    /\ UNCHANGED <<pending, calls, nodes, errCBArgs, finalCBCalls, rethrown,
                   family, endedAt, dom, first>>

\* _serializeDOM of a text node
serializeTextNode(w, node) ==
    serializeToken([w EXCEPT !.s.activeTemplateId = Null], StringTk(node.data))

\* a node with its children: [node, kids]
Tree(node, kids) == [node |-> node, kids |-> kids]
\* _serializeDOM of an element without a node handler, up to its children
elementStarted(w, node) == startTagSerialized(startTokenSerialized(w, node), node)
\* the same after its children: the previous tokens are put back as they were
\* after the start token, then the end token is serialized
elementEnded(w, started, before, node) ==
    endTagSerialized(
        serializeToken([w EXCEPT !.s.prevTagToken = started.s.prevTagToken,
                                 !.s.prevToken = started.s.prevToken,
                                 !.s.parentSTX = ""],
                       EndTagTk(node)),
        serializeInfoOf(before.s))
\* state.serializeChildren: _serializeDOM of every node, in order
RECURSIVE serializeNodes(_, _)
serializeTree(w, tree) ==
    IF tree.node.nodeType = "text" THEN serializeTextNode(w, tree.node)
    ELSE elementEnded(serializeNodes(elementStarted(w, tree.node), tree.kids),
                      startTokenSerialized(w, tree.node), w, tree.node)
serializeNodes(w, children) ==
    IF children = << >> THEN w
    ELSE serializeNodes(serializeTree(w, Head(children)), Tail(children))
\* state.serializeChildrenToString(nodes, wtEscaper): [w, res]
childrenToString(w, w2) ==
    [w |-> [w2 EXCEPT !.cb = w.cb, !.bits = w.bits, !.s.wteHandlerStack = Pop(@)],
     res |-> w2.bits]
serializeChildrenToString(w, children, wtEscaper) ==
    childrenToString(w, serializeNodes([w EXCEPT !.cb = "bits", !.bits = Empty,
                                                 !.s.wteHandlerStack = Append(@, wtEscaper)],
                                       children))

\* outBits.join('|')
RECURSIVE JoinBits(_)
JoinBits(outBits) ==
    IF Len(outBits) = 1 THEN outBits[1]
    ELSE outBits[1] \o <<"|">> \o JoinBits(Tail(outBits))
\* size = { width: null }: height is undefined until an option sets it
NoSize == [width |-> NullStr, height |-> NoSrc]
\* size.width + (size.height ? "x" + size.height : '') + "px"
sizeOption(size) ==
    size.width
    \o (IF size.height \notin {NoSrc, NullStr, Empty}
        THEN <<"x">> \o size.height ELSE Empty)
    \o <<"p", "x">>
\* WikitextConstants.Image.SimpleOptions: the group of a short canonical name
simpleImgOptions(v) ==
    CASE v \in {<<"t">>, <<"f">>} -> "format"
      [] v \in {<<"l">>, <<"r">>} -> "halign"
      [] OTHER -> "undefined"
\* dp.optNames of the model's figures: every option was written by its
\* short canonical name
optNames(shortCanonical) == shortCanonical
\* the loop over dp.optionList and the flush after it: the options of a
\* figure, in order; size is the size object as the options before left it
RECURSIVE figureOptionsFrom(_, _, _)
figureOptionsFrom(optionList, captionSrc, size) ==
    IF optionList = << >>
    THEN IF size.width \notin {NullStr, Empty} THEN <<sizeOption(size)>> ELSE << >>
    ELSE LET a == Head(optionList)
         IN  IF a.k \in {"width", "height"}
             THEN figureOptionsFrom(Tail(optionList), captionSrc,
                                    [size EXCEPT ![a.k] = a.v])
             ELSE (IF size.width # NullStr THEN <<sizeOption(size)>> ELSE << >>)
                  \o (CASE a.k = "caption" ->
                              <<IF a.v = NullStr THEN captionSrc ELSE a.v>>
                         [] a.k # "caption" /\ simpleImgOptions(a.v) = a.k ->
                              <<optNames(a.v)>>
                         [] OTHER -> << >>)
                  \o figureOptionsFrom(Tail(optionList), captionSrc,
                                       [size EXCEPT !.width = NullStr])
figureOptions(optionList, captionSrc) ==
    figureOptionsFrom(optionList, captionSrc, NoSize)
\* the children of the caption of a figure
captionNodes(node) ==
    CASE node.caption = "xb" ->
            <<Tree(TextNode(<<"x">>), << >>), Tree(Container("b", NoDsr), << >>)>>
      [] node.caption = "bi" ->
            <<Tree(Container("b", NoDsr), << >>), Tree(Container("i", NoDsr), << >>)>>
      [] OTHER -> <<Tree(TextNode(FigureCaption), << >>)>>
\* WSP.figureHandler: [w, res], res being what it passes to its callback
figureText(caption, node) ==
    [w |-> caption.w,
     res |-> <<"[", "[">>
               \o JoinBits(<<FigureResource>>
                             \o figureOptions(node.dp.optionList, caption.res))
               \o <<"]", "]">>]
\* img = node.firstChild.firstChild and the test of img.nodeType: what the
\* try block throws, "" when it finds the img
findImg(node) ==
    CASE node.content = "img" -> ""
      [] node.content = "text" -> "No img found!"
      [] OTHER -> "TypeError"
\* A figureHandler whose search for the img is not inside a try block
figureHandlerUncaught(w, node) ==
    IF findImg(node) # "" THEN [w |-> Throw(w, findImg(node)), res |-> Empty]
    ELSE figureText(serializeChildrenToString(w, captionNodes(node),
                                              "aHandler"),
                    node)
\* the catch block answers cb('')
figureHandler(w, node) ==
    IF findImg(node) # "" THEN [w |-> w, res |-> Empty]
    ELSE figureText(serializeChildrenToString(w, captionNodes(node),
                                              "aHandler"),
                    node)

\* WSP.linkHandler for the model's link, a wikilink whose only child is the
\* text of its target: [w, res]
LinkText == <<"[", "[", "x", "]", "]">>
linkHandler(w, node) ==
    [w |-> [w EXCEPT !.s.onStartOfLine = FALSE], res |-> LinkText]

\* The link tail hack of _serializeDOM: '<nowiki/>' for a wikilink in native
\* syntax with no recorded tail whose next sibling is a text node starting
\* with a letter a-z (the model's links are wikilinks without a tail).  Only
\* the token-based branch emits it, after the end token; a link in native
\* syntax has a node handler and takes the DOM-based branch.
LowerCaseLetters ==
    {"a", "b", "c", "d", "e", "f", "g", "h", "i", "j", "k", "l", "m", "n", "o",
     "p", "q", "r", "s", "t", "u", "v", "w", "x", "y", "z"}
tailSrc(node, nextSibling) ==
    IF /\ node.nodeName = "a"
       /\ node.dp.stx # "html"
       /\ nextSibling.nodeType = "text"
       /\ nextSibling.data # Empty
       /\ nextSibling.data[1] \in LowerCaseLetters
    THEN <<"<", "n", "o", "w", "i", "k", "i", "/", ">">>
    ELSE Empty

\* cbWrapper of the DOM-based branch
cbWrapper(w, res) ==
    LET w1 == IF res # Empty
              THEN [w EXCEPT !.s.onStartOfLine = EndsWithNL(res) /\ res[Len(res)] = NL]
              ELSE w
    IN  chunkCB(w1, res, Null)

\* domHandler.handle(state, node, cbWrapper)
domHandled(w, node) ==
    IF node.nodeName = "figure" THEN figureHandler(w, node) ELSE linkHandler(w, node)
\* Fake curToken state for token-based handlers
fakeTokens(w, fake) ==
    [w EXCEPT !.s.curToken = fake, !.s.prevToken = fake,
              !.s.currTagToken = fake, !.s.prevTagToken = fake]
handledResult(r, node, serializeInfo) ==
    IF r.w.threw THEN r.w
    ELSE
    resetSerializeInfo(fakeTokens(cbWrapper(r.w, r.res), EndTagTk(node)),
                       serializeInfo)

\* DOM-based serialization: the node handler writes to the chunk callback
SerializeByDOMHandler ==
    /\ UNCHANGED toolVars
    /\ pc = "walk"
    /\ pending.nodeType = "element"
    /\ ~pending.badJSON
    /\ ~skipsElement(state, pending)
    /\ hasDOMHandler(pending)
    /\ Commit(handledResult(domHandled(announceSerializeInfo(elementEntered(W)),
                                       pending),
                            pending, serializeInfoOf(state)),
              "walk")
    /\ pending' = NoNode
    /\ UNCHANGED <<stack, calls, nodes, errCBArgs, finalCBCalls, rethrown,
                   family, endedAt, dom, first>>

SerializeText ==
    /\ UNCHANGED toolVars
    /\ pc = "walk"
    /\ pending.nodeType = "text"
    /\ Commit(serializeTextNode(W, pending), "walk")
    /\ pending' = NoNode
    /\ UNCHANGED <<stack, calls, nodes, errCBArgs, finalCBCalls, rethrown,
                   family, endedAt, dom, first>>

SerializeComment ==
    /\ UNCHANGED toolVars
    /\ pc = "walk"
    /\ pending.nodeType = "comment"
    /\ Commit(serializeToken(W, CommentTk(pending.data)), "walk")
    /\ pending' = NoNode
    /\ UNCHANGED <<stack, calls, nodes, errCBArgs, finalCBCalls, rethrown,
                   family, endedAt, dom, first>>

\* Calls of one process, each on a DOM of one family, with or without the
\* original wikitext
Next ==
    \/ \E src \in {NoSrc, PageSrc}, t \in BOOLEAN, fam \in Families :
          SerializeDOM(src, t, fam)
    \/ \E child \in NodeChoices(family, HasPageSrc(state)) : NextChild(child)
    \/ SkipSeparator
    \/ SerializeTemplateContent
    \/ SerializeMalformed
    \/ SerializeStartTag
    \/ EndChildren
    \/ SerializeEndTag
    \/ SerializeByDOMHandler
    \/ SerializeText
    \/ SerializeComment
    \/ SerializeEOF
    \/ FinalCB
    \/ Catch

Spec == Init /\ [][Next]_vars

\* Calls of one process on DOMs of metas and headings, without original
\* wikitext, the DOM of each call and the chunks of the first one recorded
NextCalls ==
    \/ \E fam \in CallFamilies : SerializeDOM(NoSrc, FALSE, fam)
    \/ \E child \in NodeChoices(family, FALSE) : NextChild(child)
    \/ SerializeStartTag
    \/ EndChildren
    \/ SerializeEndTag
    \/ SerializeEOF
    \/ FinalCB

SpecCalls == Init /\ [][NextCalls]_vars

\* One call on a DOM of nested lists and text, without original wikitext
NextLists ==
    \/ \E fam \in ListFamilies : calls = 0 /\ SerializeDOM(NoSrc, FALSE, fam)
    \/ \E child \in NodeChoices(family, FALSE) : NextChild(child)
    \/ SerializeStartTag
    \/ EndChildren
    \/ SerializeEndTag
    \/ SerializeText
    \/ SerializeEOF
    \/ FinalCB

SpecLists == Init /\ [][NextLists]_vars


(***************************************************************************)
(* The command line tool (tests/parse.js): it reads its input from stdin   *)
(* and writes one conversion of it to stdout                               *)
(***************************************************************************)
\* the boolean conversion options, each with default false
Argvs ==
    [wt2html : BOOLEAN, html2wt : BOOLEAN, wt2wt : BOOLEAN, html2html : BOOLEAN,
     selser : BOOLEAN, linearmodel : BOOLEAN]
\* the tool has parsed its options; given keeps them as they were passed
ToolStarted(opts) ==
    [pc |-> "options", given |-> opts, parserPipeline |-> FALSE,
     serializer |-> "undefined", stdout |-> << >>, paths |-> << >>,
     exception |-> NoException]

InitParse ==
    /\ InitSerializer
    /\ argv \in Argvs
    /\ tool = ToolStarted(argv)
    /\ link = NoLink
    /\ InitLater

\* Default conversion mode
DefaultMode ==
    /\ tool.pc = "options"
    /\ argv' = IF ~argv.html2wt /\ ~argv.wt2wt /\ ~argv.html2html
               THEN [argv EXCEPT !.wt2html = TRUE]
               ELSE argv
    /\ tool' = [tool EXCEPT !.pc = "env"]
    /\ UNCHANGED <<link, serializerVars, laterVars>>

\* the getParserEnv callback: Init parsers, serializers, etc.
InitParsers ==
    /\ tool.pc = "env"
    /\ tool' = [tool EXCEPT
                  !.pc = "stdin",
                  !.parserPipeline = ~argv.html2wt,
                  !.serializer = IF argv.wt2html THEN "undefined"
                                 ELSE IF argv.selser THEN "SelectiveSerializer"
                                 ELSE "WikitextSerializer"]
    /\ UNCHANGED <<argv, link, serializerVars, laterVars>>

\* stdin.on('end'): HTML input goes to the serializer, wikitext input to the
\* parser pipeline; calling a method of an undefined serializer throws
StdinEnd ==
    /\ tool.pc = "stdin"
    /\ tool' = IF argv.html2wt \/ argv.html2html
               THEN IF tool.serializer = "undefined"
                    THEN [tool EXCEPT !.pc = "crashed", !.exception = "TypeError"]
                    ELSE [tool EXCEPT !.pc = "serializeDOM"]
               ELSE [tool EXCEPT !.pc = "process"]
    /\ UNCHANGED <<argv, link, serializerVars, laterVars>>

\* the final callback of serializeDOM on HTML input: the wikitext is written,
\* or parsed again; process.exit(0) follows parserPipeline.process(wt), whose
\* 'document' event comes before it (sync) or not at all
FinalCallback(sync) ==
    /\ tool.pc = "serializeDOM"
    /\ tool' = IF argv.html2wt
               THEN [tool EXCEPT !.pc = "exited",
                                 !.stdout = Append(@, "wikitext"),
                                 !.paths = Append(@, "html2wt")]
               ELSE IF sync
               THEN [tool EXCEPT !.pc = "exited",
                                 !.stdout = Append(@, "html"),
                                 !.paths = Append(@, "html2html")]
               ELSE [tool EXCEPT !.pc = "exited",
                                 !.paths = Append(@, "html2html")]
    /\ UNCHANGED <<argv, link, serializerVars, laterVars>>

\* the 'document' callback on wikitext input
Document ==
    /\ tool.pc = "process"
    /\ tool' = IF argv.wt2html
               THEN [tool EXCEPT !.pc = "exited",
                                 !.stdout = @ \o <<"html", "\n">>,
                                 !.paths = Append(@, "wt2html")]
               ELSE IF argv.wt2wt
               THEN [tool EXCEPT !.pc = "wt2wt"]
               ELSE [tool EXCEPT !.pc = "exited",
                                 !.stdout = Append(@, "linearmodel"),
                                 !.paths = Append(@, "linearmodel")]
    /\ UNCHANGED <<argv, link, serializerVars, laterVars>>

\* finishCb as the final callback of serializeDOM (wt2wt)
FinishCb ==
    /\ tool.pc = "wt2wt"
    /\ tool' = [tool EXCEPT !.pc = "exited",
                            !.stdout = Append(@, "wikitext"),
                            !.paths = Append(@, "wt2wt")]
    /\ UNCHANGED <<argv, link, serializerVars, laterVars>>

NextParse ==
    \/ DefaultMode
    \/ InitParsers
    \/ StdinEnd
    \/ \E sync \in BOOLEAN : FinalCallback(sync)
    \/ Document
    \/ FinishCb

SpecParse == InitParse /\ [][NextParse]_vars
(***************************************************************************)
(* WSP.linkHandler on a wikilink: the link's round-trip data, the choice   *)
(* between a simple and a piped link, and the pipe trick                   *)
(***************************************************************************)
WikiLinkTypes ==
    {"mw:WikiLink", "mw:WikiLink/Category", "mw:WikiLink/Language",
     "mw:WikiLink/Interwiki"}
\* the hrefs of the model's links: a title, a title in a namespace, a title
\* with an empty and with a non-empty fragment; none holds a percent escape
\* or a leading './', so Util.decodeURI and the href clean-up leave them alone
LinkTargets ==
    {<<"F">>, <<"n", ":", "F">>, <<"F", "#">>, <<"F", "#", "k">>}
\* the text of a link's only text child, or what its child nodes serialize to
LinkContents ==
    {Empty, <<"F">>, <<"f">>, <<"x">>, <<"F", "s">>, <<"p", "F">>, <<"p", "F", "s">>}
\* a link node: rel, the shadowed href, what its children are, the shadowed
\* mw:sortKey (NullStr when there is none) and its data-parsoid; tail and
\* prefix are Empty when data-parsoid records none
LinkNodes ==
    [type : WikiLinkTypes, href : LinkTargets, modified : BOOLEAN,
     children : {"none", "text", "nodes"}, content : LinkContents,
     sortKey : {NullStr, Empty, <<"k">>},
     pipetrick : BOOLEAN, stx : {"simple", "piped"},
     tail : {Empty, <<"s">>}, prefix : {Empty, <<"p">>}]
\* s ends with the characters of suffix
EndsWith(s, suffix) ==
    Len(s) >= Len(suffix) /\ SubSeq(s, Len(s) - Len(suffix) + 1, Len(s)) = suffix

\* position of the first '#' of s, 0 when it has none
RECURSIVE IndexOfHash(_, _)
IndexOfHash(s, i) ==
    IF i > Len(s) THEN 0 ELSE IF s[i] = "#" THEN i ELSE IndexOfHash(s, i + 1)
\* s.replace(/_/g, ' ')
UnderscoresToSpaces(s) == [i \in 1..Len(s) |-> IF s[i] = "_" THEN " " ELSE s[i]]

\* Util.stripPipeTrickChars: the title without its namespace prefix
RECURSIVE stripPipeTrickChars(_)
stripPipeTrickChars(target) ==
    IF \E i \in 1..Len(target) : target[i] = ":"
    THEN stripPipeTrickChars(Tail(target))
    ELSE target
\* env.normalizeTitle: first letter in upper case, blanks as underscores, or
\* underscores as blanks when noUnderscores is set
normalizeTitle(title, noUnderscores) ==
    [i \in 1..Len(title) |->
        IF i = 1 /\ title[i] = "f" THEN "F"
        ELSE IF noUnderscores /\ title[i] = "_" THEN " "
        ELSE IF ~noUnderscores /\ title[i] = " " THEN "_"
        ELSE title[i]]

\* splitLinkContentString: [contentString, tail, prefix]
splitLinkContentString(contentString, dp) ==
    IF dp.pipetrick
    THEN [contentString |-> Empty, tail |-> dp.tail, prefix |-> dp.prefix]
    ELSE LET tailed == dp.tail # Empty /\ EndsWith(contentString, dp.tail)
             c1 == IF tailed
                   THEN SubSeq(contentString, 1, Len(contentString) - Len(dp.tail))
                   ELSE contentString
             prefixed == dp.prefix # Empty /\ StartsWith(c1, dp.prefix)
             c2 == IF prefixed THEN SubSeq(c1, Len(dp.prefix) + 1, Len(c1)) ELSE c1
         IN  [contentString |-> c2,
              tail |-> IF tailed THEN dp.tail ELSE Empty,
              prefix |-> IF prefixed THEN dp.prefix ELSE Empty]
\* linkData with the content string, tail and prefix of contentParts; the
\* handler stores tail and prefix in data-parsoid too
withContentParts(ld, contentParts) ==
    [ld EXCEPT !.content.string = contentParts.contentString,
               !.tail = contentParts.tail, !.prefix = contentParts.prefix]

\* getLinkRoundTripData: content.string is NoSrc when it is undefined; the
\* shadow info of the href has a value, modified and fromsrc, and no string
getLinkRoundTripData(node) ==
    LET rtData == [type |-> node.type,
                   target |-> [value |-> node.href, modified |-> node.modified],
                   href |-> node.href,
                   tail |-> node.tail, prefix |-> node.prefix,
                   content |-> [string |-> NoSrc, nodes |-> FALSE, fromsrc |-> FALSE]]
    IN  CASE node.children = "text" ->
                IF ~node.modified /\ node.tail # Empty
                   /\ EndsWith(node.content, node.tail)
                THEN [rtData EXCEPT
                        !.content.string =
                            SubSeq(node.content, 1, Len(node.content) - Len(node.tail))]
                ELSE [rtData EXCEPT !.tail = Empty, !.prefix = Empty,
                                    !.content.string = node.content]
          [] node.children = "nodes" -> [rtData EXCEPT !.content.nodes = TRUE]
          [] OTHER -> rtData

\* Special-case handling for category links: target and sort key are split
categoryLinkData(node, ld) ==
    LET hash == IndexOfHash(ld.target.value, 1)
        split == IF hash > 0
                 THEN withContentParts(
                          [ld EXCEPT !.target.value =
                              UnderscoresToSpaces(SubSeq(ld.target.value, 1, hash - 1))],
                          splitLinkContentString(
                              SubSeq(ld.target.value, hash + 1, Len(ld.target.value)),
                              node))
                 ELSE IF node.pipetrick
                 THEN [ld EXCEPT !.content.string = Empty]
                 ELSE [ld EXCEPT !.content.string = ld.target.value]
    IN  IF node.sortKey # NullStr
        THEN [split EXCEPT !.content.nodes = FALSE,
                           !.content.string = node.sortKey,
                           !.content.fromsrc = TRUE]
        ELSE split
\* the round-trip data after the special cases of the link types
linkData(node) ==
    LET ld == getLinkRoundTripData(node)
    IN  CASE ld.type = "mw:WikiLink/Category" -> categoryLinkData(node, ld)
          [] ld.type = "mw:WikiLink/Language" /\ ld.content.string = NoSrc ->
                [ld EXCEPT !.content.string = ld.target.value]
          [] OTHER -> ld

canUseSimple(node, ld) ==
    /\ ld.content.string # NoSrc
    /\ \/ ld.content.string = ld.target.value
       \/ ld.content.string = ld.href
       \/ normalizeTitle(ld.content.string, TRUE) = ld.target.value
       \/ normalizeTitle(ld.content.string, FALSE) = ld.href
    /\ ~(~ld.target.modified /\ (node.stx = "piped" \/ node.pipetrick))
canUsePipeTrick(node, ld) ==
    /\ ld.content.string # NoSrc
    /\ ld.type # "mw:WikiLink/Category"
    /\ \/ stripPipeTrickChars(ld.target.value) = ld.content.string
       \/ stripPipeTrickChars(ld.href) = ld.content.string
       \/ normalizeTitle(stripPipeTrickChars(ld.target.value), FALSE)
             = normalizeTitle(ld.content.string, FALSE)
       \/ normalizeTitle(stripPipeTrickChars(ld.href), FALSE)
             = normalizeTitle(ld.content.string, FALSE)
willUsePipeTrick(node, ld) == canUsePipeTrick(node, ld) /\ node.pipetrick

\* escapeWikiLinkContentString: a text of the quick check's alphabet is left
\* alone, another one is fenced
escapeWikiLinkContentString(contentString) ==
    IF NeedsNoEscape(contentString) THEN contentString ELSE escapedText(contentString)

\* the content source of a piped link before the '<nowiki/>' protection, with
\* the tail and prefix the handler emits: [contentString, tail, prefix]
pipedParts(node, ld) ==
    IF ld.content.nodes THEN splitLinkContentString(node.content, node)
    ELSE [contentString |->
              IF willUsePipeTrick(node, ld) THEN Empty
              ELSE IF ld.content.fromsrc THEN ld.content.string
              ELSE escapeWikiLinkContentString(
                       IF ld.content.string = NoSrc THEN Empty
                       ELSE ld.content.string),
          tail |-> ld.tail, prefix |-> ld.prefix]

\* A content source that leaves an empty link content unprotected
pipedContentSrcUnprotected(node, ld) == pipedParts(node, ld).contentString

\* the content source of a piped link
pipedContentSrc(node, ld) ==
    IF pipedParts(node, ld).contentString = Empty /\ ~willUsePipeTrick(node, ld)
       /\ ld.type # "mw:WikiLink/Category"
    THEN <<"<", "n", "o", "w", "i", "k", "i", "/", ">">>
    ELSE pipedParts(node, ld).contentString

\* what linkHandler passes to cb for a wikilink: the wikitext, whether it is
\* a piped link, the text after the pipe, and the prefix, text between the
\* brackets that the link shows, and tail it is made of
simpleLinkSrc(node, ld) ==
    [piped |-> FALSE, contentSrc |-> Empty,
     prefix |-> ld.prefix, tail |-> ld.tail,
     shown |-> IF ~ld.target.modified THEN ld.target.value
               ELSE escapeWikiLinkContentString(ld.content.string),
     text |-> ld.prefix \o <<"[", "[">>
              \o (IF ~ld.target.modified THEN ld.target.value
                  ELSE escapeWikiLinkContentString(ld.content.string))
              \o <<"]", "]">> \o ld.tail]
pipedLinkSrc(node, ld) ==
    [piped |-> TRUE, contentSrc |-> pipedContentSrc(node, ld),
     prefix |-> pipedParts(node, ld).prefix, tail |-> pipedParts(node, ld).tail,
     shown |-> pipedContentSrc(node, ld),
     text |-> pipedParts(node, ld).prefix \o <<"[", "[">> \o ld.target.value
              \o <<"|">> \o pipedContentSrc(node, ld) \o <<"]", "]">>
              \o pipedParts(node, ld).tail]
wikiLinkSrc(node) ==
    IF canUseSimple(node, linkData(node))
    THEN simpleLinkSrc(node, linkData(node))
    ELSE pipedLinkSrc(node, linkData(node))

\* a link node handed to linkHandler, and what the handler passed to cb
InitLinks ==
    /\ InitSerializer
    /\ argv = NoArgv
    /\ tool = NoTool
    /\ InitLater
    /\ \E node \in LinkNodes :
          /\ node.children = "none" => node.content = Empty
          /\ link = [pc |-> "node", node |-> node]
LinkHandler ==
    /\ link.pc = "node"
    /\ link' = [pc |-> "done", node |-> link.node, out |-> wikiLinkSrc(link.node)]
    /\ UNCHANGED <<argv, tool, serializerVars, laterVars>>
NextLinks == LinkHandler
SpecLinks == InitLinks /\ [][NextLinks]_vars

(***************************************************************************)
(* WSP.figureHandler on the option lists of figures                         *)
(***************************************************************************)
MaxOptions == 4
\* entries of dp.optionList: size keys, the caption, simple options
FigureOptionChoices ==
    {[k |-> "width", v |-> <<"1">>], [k |-> "width", v |-> <<"2">>],
     [k |-> "height", v |-> <<"3">>], CaptionOption,
     [k |-> "format", v |-> <<"t">>], [k |-> "halign", v |-> <<"l">>]}
OptionLists == UNION {[1..n -> FigureOptionChoices] : n \in 0..MaxOptions}

InitFigures ==
    /\ InitSerializer
    /\ argv = NoArgv
    /\ tool = NoTool
    /\ link = NoLink
    /\ dispatcher = [pc |-> "none"]
    /\ pipelines = [pc |-> "none"]
    /\ request = [pc |-> "none"]
    /\ \E optionList \in OptionLists :
          figure = [pc |-> "node", optionList |-> optionList]
\* the handler builds outBits from the option list; out is outBits after the
\* image resource
FigureHandler ==
    /\ figure.pc = "node"
    /\ figure' = [pc |-> "done", optionList |-> figure.optionList,
                  out |-> figureOptions(figure.optionList, FigureCaption)]
    /\ UNCHANGED <<argv, tool, link, dispatcher, pipelines, request,
                   serializerVars>>
NextFigures == FigureHandler
SpecFigures == InitFigures /\ [][NextFigures]_vars

(***************************************************************************)
(* QueueDispatcher (src/cpp/src/QueueDispatcher.cpp): receive puts a chunk  *)
(* list at the front of the queue and posts senderLoop to the IO service    *)
(* unless a loop is active; senderLoop hands the queue to the receiver from *)
(* the back.  A chunk list is modelled by the number of the receive call    *)
(* that brought it.                                                         *)
(***************************************************************************)
MaxChunks == 4
MaxPosted == 3
MaxDelivered == 5
\* a dispatcher after construction: nothing queued, no loop active or posted;
\* sent and delivered record the receive calls and the receiver's calls,
\* loop and recv are the places of the thread that runs senderLoop and of the
\* thread that runs receive, overlapR and overlapS tell whether the access to
\* the queue that thread is in overlapped one of the other thread
NewDispatcher ==
    [pc |-> "run", queue |-> << >>, isActive |-> FALSE, haveEndOfInput |-> FALSE,
     posted |-> 0, sent |-> << >>, delivered |-> << >>, loop |-> "idle",
     recv |-> "idle", async |-> TRUE, reentered |-> FALSE, burst |-> FALSE,
     overlapR |-> FALSE, overlapS |-> FALSE, raced |-> FALSE]
Back(queue) == queue[Len(queue)]
PopBack(queue) == SubSeq(queue, 1, Len(queue) - 1)
\* A queue filled at the end it is emptied from
PushBack(queue, chunk) == Append(queue, chunk)
PushFront(queue, chunk) == <<chunk>> \o queue
\* io.post(bind(&QueueDispatcher::senderLoop, this)) unless a loop is active
posts(d) ==
    IF ~d.isActive
    THEN [d EXCEPT !.posted = @ + 1, !.burst = @ \/ d.posted > 0]
    ELSE d
\* QueueDispatcher::receive, run by one thread with no other at work
receive(d, async) ==
    posts([d EXCEPT !.queue = PushFront(@, Len(d.sent) + 1),
                    !.sent = Append(@, Len(d.sent) + 1),
                    !.haveEndOfInput = @ \/ ~async])

InitDispatcher ==
    /\ InitSerializer
    /\ argv = NoArgv
    /\ tool = NoTool
    /\ link = NoLink
    /\ figure = [pc |-> "none"]
    /\ pipelines = [pc |-> "none"]
    /\ request = [pc |-> "none"]
    /\ dispatcher = NewDispatcher
UnchangedButDispatcher ==
    UNCHANGED <<argv, tool, link, figure, pipelines, request, serializerVars>>

\* A handler of the IO service other than senderLoop calls receive
Receive(async) ==
    /\ dispatcher.pc = "run"
    /\ dispatcher.loop = "idle"
    /\ Len(dispatcher.sent) < MaxChunks
    /\ dispatcher.posted < MaxPosted
    /\ dispatcher' = receive(dispatcher, async)
    /\ UnchangedButDispatcher
\* The IO service runs a posted senderLoop: isActive = true
SenderLoop ==
    /\ dispatcher.pc = "run"
    /\ dispatcher.loop = "idle"
    /\ dispatcher.recv = "idle"
    /\ dispatcher.posted > 0
    /\ dispatcher' = [dispatcher EXCEPT !.posted = @ - 1, !.isActive = TRUE,
                                        !.loop = "test"]
    /\ UnchangedButDispatcher
\* One turn of the loop: the receiver gets queue.back(), and may call receive
\* before it returns; then queue.pop_back()
Deliver(reenters, async) ==
    /\ dispatcher.loop = "test"
    /\ dispatcher.recv = "idle"
    /\ dispatcher.queue # << >>
    /\ reenters => Len(dispatcher.sent) < MaxChunks
    /\ LET got == [dispatcher EXCEPT !.delivered = Append(@, Back(dispatcher.queue)),
                                     !.reentered = @ \/ reenters]
           back == IF reenters THEN receive(got, async) ELSE got
       IN  dispatcher' = [back EXCEPT !.queue = PopBack(@)]
    /\ UnchangedButDispatcher
\* The queue is empty: isActive = false, and the loop returns
LoopEnds ==
    /\ dispatcher.loop = "test"
    /\ dispatcher.recv = "idle"
    /\ dispatcher.queue = << >>
    /\ dispatcher' = [dispatcher EXCEPT !.isActive = FALSE, !.loop = "idle"]
    /\ UnchangedButDispatcher

NextDispatcher ==
    \/ \E async \in BOOLEAN : Receive(async)
    \/ SenderLoop
    \/ \E reenters, async \in BOOLEAN : Deliver(reenters, async)
    \/ LoopEnds
SpecDispatcher == InitDispatcher /\ [][NextDispatcher]_vars

\* receive and senderLoop on two threads of the IO service, statement by
\* statement; the class has no lock and no atomic member.  A call of a
\* member function of the queue takes time: the thread enters it and leaves
\* it, and what it does takes effect when it leaves.  Two calls that overlap
\* are a data race on the queue: the call either does what it would do alone
\* or leaves the queue as it was.
InQueue == {"testing", "reading", "popping"}
RaceOutcomes(overlapped) == IF overlapped THEN {"done", "undone"} ELSE {"done"}

\* A thread calls receive
RecvCall(async) ==
    /\ dispatcher.pc = "run"
    /\ dispatcher.recv = "idle"
    /\ Len(dispatcher.sent) < MaxChunks
    /\ dispatcher.posted < MaxPosted
    /\ dispatcher' = [dispatcher EXCEPT !.recv = "push", !.async = async,
                                        !.sent = Append(@, Len(dispatcher.sent) + 1)]
    /\ UnchangedButDispatcher
\* queue.push_front( ret.getChunks() ) begins
RecvEntersQueue ==
    /\ dispatcher.recv = "push"
    /\ dispatcher' = [dispatcher EXCEPT
                        !.recv = "pushing",
                        !.overlapR = dispatcher.loop \in InQueue,
                        !.overlapS = @ \/ dispatcher.loop \in InQueue,
                        !.raced = @ \/ dispatcher.loop \in InQueue]
    /\ UnchangedButDispatcher
\* and returns
RecvPushed(outcome) ==
    /\ dispatcher.recv = "pushing"
    /\ outcome \in RaceOutcomes(dispatcher.overlapR)
    /\ dispatcher' = [dispatcher EXCEPT
                        !.recv = "eoi",
                        !.overlapR = FALSE,
                        !.queue = IF outcome = "done"
                                  THEN PushFront(@, Len(dispatcher.sent)) ELSE @]
    /\ UnchangedButDispatcher
\* if ( ! ret.isAsync() ) haveEndOfInput = true
RecvEndOfInput ==
    /\ dispatcher.recv = "eoi"
    /\ dispatcher' = [dispatcher EXCEPT !.recv = "check",
                                        !.haveEndOfInput = @ \/ ~dispatcher.async]
    /\ UnchangedButDispatcher
\* if ( !isActive ) io.post(...)
RecvPosts ==
    /\ dispatcher.recv = "check"
    /\ dispatcher' = [posts(dispatcher) EXCEPT !.recv = "idle"]
    /\ UnchangedButDispatcher

\* The other thread takes a posted senderLoop: isActive = true
LoopStarts ==
    /\ dispatcher.pc = "run"
    /\ dispatcher.loop = "idle"
    /\ dispatcher.posted > 0
    /\ dispatcher' = [dispatcher EXCEPT !.posted = @ - 1, !.isActive = TRUE,
                                        !.loop = "test"]
    /\ UnchangedButDispatcher
\* queue.empty(), queue.back() or queue.pop_back() begins
LoopEntersQueue ==
    /\ dispatcher.loop \in {"test", "deliver", "pop"}
    /\ dispatcher' = [dispatcher EXCEPT
                        !.loop = CASE @ = "test" -> "testing"
                                   [] @ = "deliver" -> "reading"
                                   [] OTHER -> "popping",
                        !.overlapS = dispatcher.recv = "pushing",
                        !.overlapR = @ \/ dispatcher.recv = "pushing",
                        !.raced = @ \/ dispatcher.recv = "pushing"]
    /\ UnchangedButDispatcher
\* while ( ! queue.empty() )
LoopTested ==
    /\ dispatcher.loop = "testing"
    /\ dispatcher' = [dispatcher EXCEPT
                        !.loop = IF dispatcher.queue = << >> THEN "clear" ELSE "deliver",
                        !.overlapS = FALSE]
    /\ UnchangedButDispatcher
\* receiver( queue.back() )
LoopDelivered ==
    /\ dispatcher.loop = "reading"
    /\ dispatcher' = [dispatcher EXCEPT
                        !.loop = "pop",
                        !.overlapS = FALSE,
                        !.delivered = Append(@, Back(dispatcher.queue))]
    /\ UnchangedButDispatcher
\* queue.pop_back()
LoopPopped(outcome) ==
    /\ dispatcher.loop = "popping"
    /\ outcome \in RaceOutcomes(dispatcher.overlapS)
    /\ outcome = "undone" => Len(dispatcher.delivered) < MaxDelivered
    /\ dispatcher' = [dispatcher EXCEPT
                        !.loop = "test",
                        !.overlapS = FALSE,
                        !.queue = IF outcome = "done" THEN PopBack(@) ELSE @]
    /\ UnchangedButDispatcher
\* isActive = false
LoopClears ==
    /\ dispatcher.loop = "clear"
    /\ dispatcher' = [dispatcher EXCEPT !.loop = "idle", !.isActive = FALSE]
    /\ UnchangedButDispatcher

RecvStep ==
    \/ RecvEntersQueue
    \/ \E outcome \in {"done", "undone"} : RecvPushed(outcome)
    \/ RecvEndOfInput
    \/ RecvPosts
LoopStep ==
    \/ LoopStarts
    \/ LoopEntersQueue
    \/ LoopTested
    \/ LoopDelivered
    \/ \E outcome \in {"done", "undone"} : LoopPopped(outcome)
    \/ LoopClears
NextThreads ==
    \/ \E async \in BOOLEAN : RecvCall(async)
    \/ RecvStep
    \/ LoopStep
\* a thread that has begun receive goes on, and the IO service runs what was
\* posted to it
SpecThreads ==
    InitDispatcher /\ [][NextThreads]_vars /\ WF_vars(RecvStep) /\ WF_vars(LoopStep)

(***************************************************************************)
(* The pipeline cache of ParserPipelineFactory: getPipeline hands out a     *)
(* cached pipeline or makes one, a pipeline returns to the cache by the     *)
(* listener its constructor puts on the 'end' event of its last stage.      *)
(* One of the pipelines made is watched: it alone is told from the others,  *)
(* and its consumer alone registers listeners of its own.                   *)
(***************************************************************************)
MaxPipelines == 10
MaxListeners == 2
CacheLimit == 8
\* the options getPipeline is called with: wrapTemplates given or not
PipelineOptions ==
    [isInclude : {"undefined"}, wrapTemplates : {"undefined", "true"},
     inBlockToken : {"undefined"}]
PipelineTypes == {"tokens/x-mediawiki"}
\* getCacheKey, after getPipeline has made an undefined isInclude true
getCacheKey(cacheType, options) ==
    <<cacheType>>
    \o (IF options.isInclude \in {"false"} THEN <<"::noInclude">> ELSE << >>)
    \o (IF options.wrapTemplates \in {"undefined", "false"} THEN <<"::noWrap">> ELSE << >>)
    \o (IF options.inBlockToken \in {"true"} THEN <<"::inBlockToken">> ELSE << >>)
CacheKeys == {getCacheKey(t, o) : t \in PipelineTypes, o \in PipelineOptions}
\* new ParserPipeline(first, last, returnToCacheCB, env): the listeners of
\* its last stage, "cache" being this.returnToCacheCB
ParserPipeline(cacheType, watched) ==
    [cacheType |-> cacheType, end |-> <<"cache">>, chunk |-> << >>,
     watched |-> watched]
\* a factory after construction: this.pipelineCache = {}; atWork is the bag
\* of the pipelines consumers got from getPipeline and whose 'end' has not
\* come yet, made the number of pipelines made
NewFactory ==
    [pc |-> "run", pipelineCache |-> [k \in CacheKeys |-> << >>],
     atWork |-> EmptyBag, made |-> 0, watchedMade |-> FALSE]
\* A removeAllListeners that forwards every event to the last stage
removeAllListenersOfLast(pipe, event) ==
    IF event = "end" THEN [pipe EXCEPT !.end = << >>]
    ELSE [pipe EXCEPT !.chunk = << >>]
\* ParserPipeline.prototype.removeAllListeners
removeAllListeners(pipe, event) ==
    IF event = "end" THEN [pipe EXCEPT !.end = <<"cache">>]
    ELSE [pipe EXCEPT !.chunk = << >>]
\* ParserPipelineFactory.prototype.returnPipeline, bound to the cache key
returnPipeline(f, type, pipe) ==
    LET cleared == removeAllListeners(removeAllListeners(pipe, "end"), "chunk")
        cache == f.pipelineCache[type]
    IN  IF Len(cache) < CacheLimit
        THEN [f EXCEPT !.pipelineCache[type] = Append(cache, cleared)]
        ELSE f
\* emit('end') on the last stage of pipe: the listeners registered when the
\* event is emitted are called in order
RECURSIVE emitEnd(_, _, _)
emitEnd(f, pipe, listeners) ==
    IF listeners = << >> THEN f
    ELSE emitEnd(IF Head(listeners) = "cache"
                 THEN returnPipeline(f, pipe.cacheType, pipe)
                 ELSE f,
                 pipe, Tail(listeners))

InitPipelines ==
    /\ InitSerializer
    /\ argv = NoArgv
    /\ tool = NoTool
    /\ link = NoLink
    /\ figure = [pc |-> "none"]
    /\ dispatcher = [pc |-> "none"]
    /\ request = [pc |-> "none"]
    /\ pipelines = NewFactory
UnchangedButPipelines ==
    UNCHANGED <<argv, tool, link, figure, dispatcher, request, serializerVars>>

\* ParserPipelineFactory.prototype.getPipeline: the last pipeline of the
\* cache of the key, or a new one made with options.cacheType set
GetPipeline(type, options, watched) ==
    /\ pipelines.pc = "run"
    /\ LET cacheType == getCacheKey(type, options)
           cache == pipelines.pipelineCache[cacheType]
       IN  IF cache # << >>
           THEN /\ ~watched
                /\ pipelines' =
                      [pipelines EXCEPT
                         !.pipelineCache[cacheType] = SubSeq(cache, 1, Len(cache) - 1),
                         !.atWork = @ (+) SetToBag({cache[Len(cache)]})]
           ELSE /\ pipelines.made < MaxPipelines
                /\ watched => ~pipelines.watchedMade
                /\ pipelines' =
                      [pipelines EXCEPT
                         !.atWork = @ (+) SetToBag({ParserPipeline(cacheType, watched)}),
                         !.made = @ + 1,
                         !.watchedMade = @ \/ watched]
    /\ UnchangedButPipelines
\* The consumer of the watched pipeline registers a listener on it
AddListener(pipe, event) ==
    /\ pipelines.pc = "run"
    /\ BagIn(pipe, pipelines.atWork)
    /\ pipe.watched
    /\ Len(pipe.end) + Len(pipe.chunk) <= MaxListeners
    /\ pipelines' = [pipelines EXCEPT
                       !.atWork = (@ (-) SetToBag({pipe}))
                                  (+) SetToBag({[pipe EXCEPT ![event] =
                                                    Append(@, "consumer")]})]
    /\ UnchangedButPipelines
\* The consumer calls removeAllListeners on its pipeline
RemoveAllListeners(pipe, event) ==
    /\ pipelines.pc = "run"
    /\ BagIn(pipe, pipelines.atWork)
    /\ pipe[event] \notin {<< >>, <<"cache">>}
    /\ pipelines' = [pipelines EXCEPT
                       !.atWork = (@ (-) SetToBag({pipe}))
                                  (+) SetToBag({removeAllListeners(pipe, event)})]
    /\ UnchangedButPipelines
\* A pipeline at work comes to the end of its input: its last stage emits
\* 'end', and its consumer is done with it
End(pipe) ==
    /\ pipelines.pc = "run"
    /\ BagIn(pipe, pipelines.atWork)
    /\ pipelines' = emitEnd([pipelines EXCEPT !.atWork = @ (-) SetToBag({pipe})],
                            pipe, pipe.end)
    /\ UnchangedButPipelines

NextPipelines ==
    \/ \E type \in PipelineTypes, options \in PipelineOptions, watched \in BOOLEAN :
          GetPipeline(type, options, watched)
    \/ \E pipe \in BagToSet(pipelines.atWork), event \in {"end", "chunk"} :
          AddListener(pipe, event)
    \/ \E pipe \in BagToSet(pipelines.atWork), event \in {"end", "chunk"} :
          RemoveAllListeners(pipe, event)
    \/ \E pipe \in BagToSet(pipelines.atWork) : End(pipe)
SpecPipelines == InitPipelines /\ [][NextPipelines]_vars

(***************************************************************************)
(* The POST handler of the web service that serializes a posted DOM         *)
(* (app.post): the callback it passes to getParserServiceEnv                *)
(***************************************************************************)
MaxWrites == 10
\* req.body of a request: oldid given or not, content that the HTML parser
\* accepts or throws on
PostBodies == [oldid : {"undefined", "1", "2"}, content : {"html", "unparsable"}]
\* a request whose environment is ready; res collects what the handler does
\* to the response: "write" a chunk, "send500" and "end" complete it
PostRequest(body) ==
    [pc |-> "cb", body |-> body, doc |-> "undefined", res |-> << >>,
     errCB |-> "default", errCBCalls |-> 0, serializeDOMCalls |-> 0,
     exception |-> NoException]
\* res.send( e.stack, 500 )
send500(r) == [r EXCEPT !.res = Append(@, "send500")]
\* env.errCB as the handler sets it
errCB(r) == send500([r EXCEPT !.errCBCalls = @ + 1])
\* the catch clause of the handler: env.errCB( e )
handlerCatch(r) == errCB(r)

InitPost ==
    /\ InitSerializer
    /\ argv = NoArgv
    /\ tool = NoTool
    /\ link = NoLink
    /\ figure = [pc |-> "none"]
    /\ dispatcher = [pc |-> "none"]
    /\ pipelines = [pc |-> "none"]
    /\ \E body \in PostBodies : request = PostRequest(body)
UnchangedButRequest ==
    UNCHANGED <<argv, tool, link, figure, dispatcher, pipelines, serializerVars>>

\* The head of the callback: the header, Util.parseHTML in its try block, whose
\* catch clause sends the 500 response and goes on; then env.errCB is set
ParseHTML ==
    /\ request.pc = "cb"
    /\ request' =
          LET parsed == IF request.body.content = "unparsable"
                        THEN send500(request)
                        ELSE [request EXCEPT !.doc = "document"]
          IN  [parsed EXCEPT !.errCB = "send500", !.pc = "try"]
    /\ UnchangedButRequest
\* new Serializer(...).serializeDOM( doc.body, ... ): doc.body throws when doc
\* is undefined, and the handler's catch clause reports it
CallSerializeDOM ==
    /\ request.pc = "try"
    /\ request' =
          IF request.doc = "undefined"
          THEN [handlerCatch([request EXCEPT !.exception = "TypeError"])
                  EXCEPT !.pc = "done"]
          ELSE [request EXCEPT !.serializeDOMCalls = @ + 1, !.pc = "serializeDOM"]
    /\ UnchangedButRequest
\* The chunk callback: res.write( chunk )
WriteChunk ==
    /\ request.pc = "serializeDOM"
    /\ Len(request.res) < MaxWrites
    /\ request' = [request EXCEPT !.res = Append(@, "write")]
    /\ UnchangedButRequest
\* The final callback: res.end( '' ), and serializeDOM returns
EndResponse ==
    /\ request.pc = "serializeDOM"
    /\ request' = [request EXCEPT !.res = Append(@, "end"), !.pc = "done"]
    /\ UnchangedButRequest
\* The serializer throws: the catch clause of serializeDOM calls
\* state.env.errCB(e) and throws e again, to the catch clause of the handler
SerializerThrows ==
    /\ request.pc = "serializeDOM"
    /\ request' = [handlerCatch(errCB([request EXCEPT !.exception = "Error"]))
                     EXCEPT !.pc = "done"]
    /\ UnchangedButRequest

NextPost ==
    \/ ParseHTML
    \/ CallSerializeDOM
    \/ WriteChunk
    \/ EndResponse
    \/ SerializerThrows
SpecPost == InitPost /\ [][NextPost]_vars
(***************************************************************************)
(* Properties                                                              *)
(***************************************************************************)
\* the texts of a chunk sequence
ChunkTexts(cs) == [i \in 1..Len(cs) |-> cs[i].text]
\* a chunk that carries handler newlines (not a span of the page source)
IsHandlerNewline(chunk) ==
    chunk.info = "separator" /\ chunk.sep = NoSep /\ chunk.text # Empty
\* a chunk a token or a DOM-based handler produced
IsTokenChunk(chunk) == chunk.info # "separator"

\* C1: after every token processed and every chunk emitted during a
\* serializeDOM call, if state.onNewline is true then state.onStartOfLine is
\* true
C1_NewlineIsStartOfLine == state.onNewline => state.onStartOfLine

\* C2: listStack, tableStack and wteHandlerStack are empty at the start of
\* every serializeDOM call and empty again when the call returns
StacksEmpty ==
    /\ state.listStack = << >>
    /\ state.tableStack = << >>
    /\ state.wteHandlerStack = << >>
C2_StacksEmptyAtEntryAndExit ==
    /\ (pc = "walk" /\ stack = << >> /\ pending.nodeName = "body") => StacksEmpty
    /\ pc = "done" => StacksEmpty

\* C3: chunks reach onChunk in document order: a line-ending newline asked
\* for between A and B is passed on before any text chunk produced after it
\* was asked for
C3_NewlineBeforeLaterText ==
    \A j \in 1..Len(chunks) :
        (chunks[j].info = "separator" /\ chunks[j].sep = NoSep)
            => \A k \in (chunks[j].at + 1)..(j - 1) : chunks[k].text = Empty

\* C4: when preprocessing or the walk raises an exception, errCB is called
\* exactly once with it, the same exception is thrown to the caller, and
\* finalCB is never invoked for that call
C4_ErrorReportedOnceAndRethrown ==
    /\ pc = "rethrown" =>
          /\ exception # NoException
          /\ errCBArgs = <<exception>>
          /\ rethrown = exception
    /\ exception # NoException => finalCBCalls = 0
    /\ pc # "rethrown" => (errCBArgs = << >> /\ rethrown = NoException)
\* a walk that emitted chunks, then threw
C4_Witness ==
    /\ pc = "rethrown"
    /\ Len(chunks) > 1
    /\ errCBArgs = <<"SyntaxError">>

\* C5: a call that does not throw invokes finalCB exactly once, after the
\* whole DOM and the EOF token have been serialized, and passes no chunk on
\* after it
C5_FinalCBOnceAtTheEnd ==
    /\ finalCBCalls <= 1
    /\ pc = "done" =>
          /\ finalCBCalls = 1
          /\ exception = NoException
          /\ stack = << >> /\ pending = NoNode
          /\ state.curToken = EOFTk
    /\ finalCBCalls = 1 => (pc = "done" /\ Len(chunks) = endedAt)
    /\ pc = "final" => state.curToken = EOFTk
\* a call over a DOM with children has ended
C5_Witness ==
    /\ pc = "done"
    /\ finalCBCalls = 1
    /\ Len(chunks) > 4

\* C6: two calls with equal DOM and environment emit equal chunk sequences,
\* whatever the process serialized before
C6_SameDomSameChunks ==
    (pc = "done" /\ first.set /\ dom = first.dom)
        => ChunkTexts(chunks) = ChunkTexts(first.chunks)

\* C7: a table end tag restores listStack and singleLineMode to the values
\* they had before the matching table start tag; after the start tag the
\* list stack is empty and singleLineMode is 0
C7_TableRestoresListState ==
    [][/\ (/\ pc = "walk" /\ pending.nodeName = "table" /\ pc' = "walk"
           /\ Len(stack') = Len(stack) + 1)
          => (state'.listStack = << >> /\ state'.singleLineMode = JNum(0))
       /\ (/\ pc = "walk" /\ pending = NoNode /\ stack # << >> /\ Top.done
           /\ Top.node.nodeName = "table" /\ pc' # "catch")
          => (/\ state'.listStack = Top.preListStack
              /\ state'.singleLineMode = Top.preSingleLineMode)]_vars

\* C8: every handler newline placed in bufferedSeparator is discarded or
\* passed on exactly once as a separator chunk, never twice and never lost,
\* and bufferedSeparator is null when serializeDOM returns
C8_BufferedNewlineAccounted ==
    /\ history.placed
          = history.discarded + history.emitted + Len(Buffered(state))
    /\ pc \in {"final", "done"} => state.bufferedSeparator = NullStr

\* the span the separator rules prescribe for a call of emitSeparator
SpecSpan(pageSrc, sepType, dsr1, dsr2) ==
    CASE sepType = START_SEP ->
            Substring(pageSrc, DsrAt(dsr1, 0) + DsrAt(dsr1, 2), DsrAt(dsr2, 0))
      [] sepType = IE_SEP ->
            Substring(pageSrc, DsrAt(dsr1, 1), DsrAt(dsr2, 0))
      [] sepType = END_SEP ->
            Substring(pageSrc, DsrAt(dsr1, 1), DsrAt(dsr2, 1) - DsrAt(dsr2, 3))
\* the relevant dsr entries are there
HasEntries(sepType, dsr1, dsr2) ==
    /\ dsr1.v # << >> /\ dsr2.v # << >>
    /\ (IF sepType = START_SEP THEN 0 ELSE 1) \notin dsr1.nul
    /\ (IF sepType = END_SEP THEN 1 ELSE 0) \notin dsr2.nul
\* emitSeparator can splice: page source, dsr entries, and a span of
\* whitespace and comments only
CanSplice(pageSrc, sepType, dsr1, dsr2) ==
    /\ pageSrc # NoSrc
    /\ HasEntries(sepType, dsr1, dsr2)
    /\ IsSeparatorText(SpecSpan(pageSrc, sepType, dsr1, dsr2))

\* C9: when the page source is there, both nodes have the relevant dsr
\* entries and the span between them is whitespace and comments only, the
\* text emitted between the two elements is exactly that span, and no
\* handler newline is emitted in addition to it
C9_SeparatorIsExactlyTheSourceSpan ==
    /\ (lastSep.type # 0
        /\ CanSplice(state.pageSrc, lastSep.type, lastSep.dsr1, lastSep.dsr2))
          => (/\ Len(chunks) = lastSep.nchunks + 1
              /\ chunks[Len(chunks)].sep # NoSep)
    /\ \A j \in 1..Len(chunks) :
          chunks[j].sep # NoSep =>
             /\ chunks[j].text = SpecSpan(state.pageSrc, chunks[j].sep[1],
                                          chunks[j].sep[2], chunks[j].sep[3])
             /\ \A k \in 1..Len(chunks) :
                   IsHandlerNewline(chunks[k]) =>
                      \E m \in (Min(j, k) + 1)..(Max(j, k) - 1) :
                          IsTokenChunk(chunks[m])

RECURSIVE CountText(_, _)
CountText(cs, text) ==
    IF cs = << >> THEN 0
    ELSE (IF Head(cs).text = text THEN 1 ELSE 0) + CountText(Tail(cs), text)

\* C11: the recorded source of a template is emitted exactly once, no
\* element carrying the template's about id is serialized as ordinary
\* content (also when text or comments lie between the siblings), and
\* activeTemplateId is cleared once the walk enters an element with a
\* different about
C11_TemplateOutputSkipped ==
    /\ CountText(chunks, TemplateSrc) <= 1
    /\ (pc = "walk" /\ stack # << >> /\ stack[1].tpl # "none" /\ pending = NoNode)
          => CountText(chunks, TemplateSrc) = 1
    /\ (pc = "walk" /\ pending.nodeType = "element" /\ pending.about = TemplateAbout
        /\ ~isTemplateStart(pending))
          => isTemplateContent(state, pending)
    /\ (pc = "walk" /\ stack # << >> /\ pending = NoNode
        /\ Top.prevSibling = NoNode /\ ~Top.done /\ Top.node.about # TemplateAbout)
          => state.activeTemplateId = Null

\* C12: after each token the depth of wteHandlerStack equals the number of
\* elements whose start token has been processed and whose end token has
\* not; a synthesized mw:TemplateSource token leaves the depth as it was
C12_EscapeStackMatchesOpenElements ==
    pc \in {"walk", "eof", "final", "done"}
        => Len(state.wteHandlerStack) = Len(stack)

\* the native-wikitext list elements open on the path to the current node
OpenLists ==
    Cardinality({i \in 1..Len(stack) : stack[i].node.nodeName \in {"ul", "ol", "dl"}})

\* C13: at every point of the walk listStack holds exactly one frame per
\* native-wikitext ul/ol/dl element open on the path from the root to the
\* current node
C13_ListStackMatchesOpenLists ==
    pc = "walk" => Len(state.listStack) = OpenLists

\* C14: state.singleLineMode is always an integer greater than or equal to
\* 0 (never negative, undefined or NaN), and it is 0 again when the walk ends
C14_SingleLineModeIsCount ==
    /\ pc \in {"walk", "eof", "final", "done"} =>
          (state.singleLineMode.t = "number" /\ state.singleLineMode.n >= 0)
    /\ pc \in {"eof", "final", "done"} => state.singleLineMode = JNum(0)

\* C15: bufferedSeparator is non-null only if the original wikitext is
\* available; without it no handler newline is ever put in the buffer
C15_BufferOnlyWithSource ==
    /\ state.bufferedSeparator # NullStr => HasPageSrc(state)
    /\ ~HasPageSrc(state) => history.placed = 0
C15_Witness ==
    /\ ~HasPageSrc(state)
    /\ pc = "done"
    /\ \E j \in 1..Len(chunks) : IsHandlerNewline(chunks[j])

\* the empty literal-text fence
NowikiTag == <<"<", "n", "o", "w", "i", "k", "i", "/", ">">>

\* C17: a heading with no children serializes to its '=' delimiters with
\* '<nowiki/>' between them: the end tag of an empty h2 gives '<nowiki/>=='
C17_EmptyHeadingFence ==
    [][(/\ pc = "walk" /\ stack # << >> /\ pending = NoNode /\ Top.done
        /\ Top.node.nodeName = "h2" /\ Top.prevSibling = NoNode
        /\ ~Top.node.dp.autoInsertedEnd
        /\ state.curToken = TagTk(Top.node)
        /\ stack' # stack)
          => (/\ Len(chunks') > Len(chunks)
              /\ chunks'[Len(chunks) + 1].text = NowikiTag \o <<"=", "=">>)]_vars

\* the empty literal-text fence as an open/close pair
NowikiPair ==
    <<"<", "n", "o", "w", "i", "k", "i", ">",
      "<", "/", "n", "o", "w", "i", "k", "i", ">">>
\* C17, as the code has it: the end tag of a heading with no children, unless
\* the parser inserted it, gives '<nowiki></nowiki>==', so that <h2></h2>
\* serializes to ==<nowiki></nowiki>==
C17_EmptyHeadingPairFence ==
    [][(/\ pc = "walk" /\ stack # << >> /\ pending = NoNode /\ Top.done
        /\ Top.node.nodeName = "h2" /\ Top.prevSibling = NoNode
        /\ ~Top.node.dp.autoInsertedEnd
        /\ state.curToken = TagTk(Top.node)
        /\ stack' # stack)
          => (/\ Len(chunks') > Len(chunks)
              /\ chunks'[Len(chunks) + 1].text = NowikiPair \o <<"=", "=">>)]_vars
\* the end tag of an empty h2 has been serialized
C17_Witness ==
    /\ pc = "walk"
    /\ state.curToken.type = "EndTagTk" /\ state.curToken.name = "h2"
    /\ state.prevToken.type = "TagTk" /\ state.prevToken.name = "h2"
    /\ \E k \in 1..Len(chunks) : chunks[k].text = NowikiPair \o <<"=", "=">>

\* the text of the last non-empty chunk
RECURSIVE LastText(_)
LastText(cs) ==
    IF cs = << >> THEN Empty
    ELSE IF cs[Len(cs)].text # Empty THEN cs[Len(cs)].text
    ELSE LastText(SubSeq(cs, 1, Len(cs) - 1))

\* C18: for a wikilink in native syntax with no recorded tail whose next
\* sibling is a text node starting with a letter a-z, '<nowiki/>' is emitted
\* directly after the link's closing ']]' and before that text
C18_LinkTailFence ==
    [][(/\ pc = "walk" /\ stack # << >> /\ pending = NoNode
        /\ pending' # NoNode
        /\ tailSrc(Top.prevSibling, pending') # Empty)
          => LastText(chunks) = NowikiTag]_vars

\* the chunks a step added are all empty
AddsNoText ==
    /\ Len(chunks') >= Len(chunks)
    /\ \A k \in (Len(chunks) + 1)..Len(chunks') : chunks'[k].text = Empty
\* the node without the marks of an inserted tag
Ordinary(node) ==
    [node EXCEPT !.dp.autoInsertedStart = FALSE, !.dp.autoInsertedEnd = FALSE]
\* the parts of the state a token updates whatever it emits
TokenState(st) ==
    <<st.prevToken.type, st.prevToken.name, st.curToken.type, st.curToken.name,
      st.prevTagToken.type, st.prevTagToken.name,
      st.currTagToken.type, st.currTagToken.name,
      st.wteHandlerStack, st.singleLineMode>>

\* C19: a start token with autoInsertedStart, or an end token with
\* autoInsertedEnd, passes no non-empty chunk to the chunk callback (no
\* handler text, no line-start or line-end newline; the buffer being empty
\* before the token), while the token window, wteHandlerStack and
\* singleLineMode are updated as for an ordinary token
C19_InsertedTagsEmitNothing ==
    [][/\ (/\ pc = "walk" /\ pending.nodeType = "element"
           /\ pending.dp.autoInsertedStart
           /\ state.bufferedSeparator = NullStr
           /\ pending' = NoNode /\ pc' = "walk")
             => (/\ AddsNoText
                 /\ TokenState(state')
                      = TokenState(startTagSerialized(
                            startTokenSerialized(W, Ordinary(pending)),
                            Ordinary(pending)).s))
       /\ (/\ pc = "walk" /\ stack # << >> /\ pending = NoNode /\ Top.done
           /\ Top.node.dp.autoInsertedEnd
           /\ state.bufferedSeparator = NullStr
           /\ stack' # stack /\ pc' = "walk")
             => (/\ AddsNoText
                 /\ TokenState(state')
                      = TokenState(serializeToken(
                            [W EXCEPT !.s.prevTagToken = Top.oldPrevTagToken,
                                      !.s.prevToken = Top.oldPrevToken,
                                      !.s.parentSTX = ""],
                            EndTagTk(Ordinary(Top.node))).s))]_vars


\* C20: a handler result that is undefined, null or no String is replaced by
\* '' and no exception is thrown, whatever the mode; here the start token of
\* an includeonly marker without src, whose handler returns undefined: the
\* step goes on with the walk and the chunk of the token is ''
C20_NonStringResultReplaced ==
    [][(/\ pc = "walk"
        /\ pending = IncludeOnlyMeta(NoSrc)
        /\ ~skipsElement(state, pending)
        /\ pending' = NoNode)
       => (/\ pc' = "walk"
           /\ exception' = NoException
           /\ Len(chunks') > Len(chunks)
           /\ \A k \in (Len(chunks) + 1)..Len(chunks') :
                 chunks'[k].info # Null \/ chunks'[k].text = Empty)]_vars

\* C21: a figure without an img as first descendant makes the figure handler
\* emit exactly one empty chunk and return without throwing, and the walk
\* continues with the following nodes
C21_MalformedFigureEmitsEmptyChunk ==
    [][(/\ pc = "walk"
        /\ pending.nodeName = "figure" /\ pending.content \in FigureShapes
        /\ hasDOMHandler(pending) /\ ~skipsElement(state, pending)
        /\ pending' = NoNode)
       => (/\ pc' = "walk"
           /\ exception' = exception
           /\ chunks' = Append(announceSerializeInfo(elementEntered(W)).c,
                               Chunk(Empty, Null,
                                     Len(announceSerializeInfo(elementEntered(W)).c)))
           /\ stack' = stack)]_vars
\* the walk goes on to a text node after a figure without img
C21_Witness ==
    /\ pc = "walk" /\ Len(stack) >= 1
    /\ pending = TextNode(<<"x">>)
    /\ Top.prevEltChild = pending
    /\ chunks[Len(chunks)].text = Empty
    /\ state.curToken.type = "EndTagTk" /\ state.curToken.name = "figure"

\* C22: no field of any record of the tag handler table is written during
\* serialization: the table always equals the table as the module loaded it
C22_HandlerTableImmutable == tagHandlers = TagHandlers

\* no conversion option but linearmodel was passed
OnlyLinearModel(opts) ==
    /\ opts.linearmodel
    /\ ~opts.wt2html /\ ~opts.html2wt /\ ~opts.wt2wt /\ ~opts.html2html

\* C23: with --linearmodel and no other conversion flag the tool writes the
\* linear model instead of HTML, and for every combination of conversion
\* flags exactly one conversion path runs
C23_LinearModelWritten ==
    tool.pc \in {"exited", "crashed"}
        => /\ OnlyLinearModel(tool.given) => tool.stdout = <<"linearmodel">>
           /\ Len(tool.paths) = 1

\* the start-of-line test of _serializeToken holds for the switched token t
LineStartDueAt(t) ==
    /\ ~t.w.threw
    /\ PartOf(t.w, t.ref).startsLine
    /\ ~t.w.s.onStartOfLine
    /\ ~t.suppressOutput
    /\ ~Truthy(t.w.s.singleLineMode)
LineStartDue(w, token) ==
    LineStartDueAt(TokenSwitch([w EXCEPT !.s.prevToken = w.s.curToken,
                                         !.s.curToken = token],
                               token))
\* every non-empty token chunk among those added to old has a handler newline
\* before it among them
TextAfterNewline(old, new) ==
    \A k \in (Len(old) + 1)..Len(new) :
        (IsTokenChunk(new[k]) /\ new[k].text # Empty)
            => \E j \in (Len(old) + 1)..(k - 1) : IsHandlerNewline(new[j])

\* C24: when a start or end token's handler has startsLine and the state is
\* neither at start of line nor in single-line mode, the newline chunk comes
\* before the token's own text chunk, with and without env.page.src
C24_LineStartBeforeText ==
    [][/\ (/\ pc = "walk" /\ pending.nodeType = "element"
           /\ ~pending.badJSON /\ ~skipsElement(state, pending)
           /\ ~hasDOMHandler(pending)
           /\ LineStartDue(announceSerializeInfo(elementEntered(W)), TagTk(pending))
           /\ pending' = NoNode /\ pc' = "walk")
          => TextAfterNewline(chunks, chunks')
       /\ (/\ pc = "walk" /\ stack # << >> /\ pending = NoNode /\ Top.done
           /\ LineStartDue([W EXCEPT !.s.prevTagToken = Top.oldPrevTagToken,
                                     !.s.prevToken = Top.oldPrevToken,
                                     !.s.parentSTX = ""],
                           EndTagTk(Top.node))
           /\ stack' # stack /\ pc' \in {"walk", "eof"})
          => TextAfterNewline(chunks, chunks')]_vars

\* the world _serializeToken gets for the end token of the innermost open
\* element
EndTokenWorld ==
    [W EXCEPT !.s.prevTagToken = Top.oldPrevTagToken,
              !.s.prevToken = Top.oldPrevToken,
              !.s.parentSTX = ""]

\* C25: paragraph suppression is pairwise: the end tag of a p element is
\* ignored if and only if the start tag of that same p element was ignored
C25_ParagraphSuppressedPairwise ==
    [][(/\ pc = "walk" /\ stack # << >> /\ pending = NoNode /\ Top.done
        /\ Top.node.nodeName = "p"
        /\ stack' # stack)
       => ((handlerOf(EndTokenWorld, EndTagTk(Top.node)) = "ignore")
              <=> (Top.startHandler = "ignore"))]_vars

\* tags whose newly created elements inherit the syntax of their parent
InheritSTXTags == {"tbody", "tr", "td", "li", "dd", "dt"}

\* C26: the start token and the end token of one element are serialized by
\* the same handler (a new tbody/tr/td/li/dd/dt inside an HTML-syntax parent
\* gets the default HTML handler for both), and after an element's children
\* are walked state.parentSTX is restored to its value before the element
C26_SameHandlerForStartAndEnd ==
    [][(/\ pc = "walk" /\ stack # << >> /\ pending = NoNode /\ Top.done
        /\ stack' # stack /\ pc' \in {"walk", "eof"})
       => /\ (Top.node.nodeName \in InheritSTXTags /\ DpEmpty(Top.node.dp))
                => handlerOf(EndTokenWorld, EndTagTk(Top.node)) = Top.startHandler
          /\ state'.parentSTX = Top.parentSTX]_vars

\* the bullet of a list or list item tag (buildListHandler('*'),
\* buildListItemHandler('') for ul and li)
BulletOf(name) == IF name = "ul" THEN <<"*">> ELSE Empty
\* the bullets of the open lists, outermost first
RECURSIVE ListPrefix(_)
ListPrefix(frames) ==
    IF frames = << >> THEN Empty
    ELSE ListPrefix(SubSeq(frames, 1, Len(frames) - 1))
            \o BulletOf(frames[Len(frames)].node.nodeName)
\* the token chunks a step added are empty but for one with this text
TokenTextAdded(text) ==
    /\ \A k \in (Len(chunks) + 1)..Len(chunks') :
          IsTokenChunk(chunks'[k]) => chunks'[k].text \in {Empty, text}
    /\ text # Empty
          => \E k \in (Len(chunks) + 1)..Len(chunks') :
                IsTokenChunk(chunks'[k]) /\ chunks'[k].text = text
\* the pending list item is at start of line, follows the end tag of an
\* item of the same name or is the dd of a multi-line dt/dd pair
LineBreakContext ==
       \/ state.onStartOfLine
       \/ (state.curToken.type = "EndTagTk" /\ state.curToken.name = pending.nodeName)
       \/ (/\ pending.nodeName = "dd" /\ pending.dp.stx # "row"
           /\ state.currTagToken.type = "EndTagTk"
           /\ state.currTagToken.name = "dt")

FullPrefixDue == Top.items > 1 /\ LineBreakContext
FullPrefixCounted == Top.items + Top.lists > 1 /\ LineBreakContext
RECURSIVE WellFormedLists(_, _)
WellFormedLists(d, open) ==
    IF d = << >> THEN open = << >>
    ELSE IF open = << >> THEN FALSE
    ELSE LET n == Head(d)
             par == open[Len(open)]
             counted == [open EXCEPT ![Len(open)].kids = @ + 1]
         IN  CASE n = NoNode ->
                     /\ par.name \in {"ul", "li"} => par.kids > 0
                     /\ WellFormedLists(Tail(d), Pop(open))
               [] n.nodeType = "text" ->
                     /\ par.name = "li" /\ par.kids = 0
                     /\ WellFormedLists(Tail(d), counted)
               [] n.nodeName = "ul" ->
                     /\ \/ par.name = "body"
                        \/ par.name = "li" /\ par.kids > 0
                     /\ WellFormedLists(Tail(d), Append(counted, [name |-> "ul", kids |-> 0]))
               [] n.nodeName = "li" ->
                     /\ par.name = "ul"
                     /\ WellFormedLists(Tail(d), Append(counted, [name |-> "li", kids |-> 0]))
               [] OTHER -> FALSE

\* the bullets of the lists open around an item, outermost first
RECURSIVE OpenBullets(_)
OpenBullets(open) ==
    IF open = << >> THEN Empty
    ELSE OpenBullets(Pop(open))
         \o BulletOf(open[Len(open)])

\* the wikitext of a well-formed DOM of nested lists: one line per item,
\* the bullets of its enclosing lists and then its text
RECURSIVE ListLines(_, _)
ListLines(d, open) ==
    IF d = << >> THEN Empty
    ELSE LET n == Head(d)
         IN  CASE n = NoNode -> ListLines(Tail(d), Pop(open))
               [] n.nodeType = "text" -> n.data \o <<NL>> \o ListLines(Tail(d), open)
               [] n.nodeName = "li" ->
                     OpenBullets(open) \o ListLines(Tail(d), Append(open, "li"))
               [] OTHER -> ListLines(Tail(d), Append(open, n.nodeName))

BodyOpen == <<[name |-> "body", kids |-> 0]>>

\* a finished call on a well-formed DOM of nested lists, without source
ListsSerialized ==
    /\ pc = "done"
    /\ family \in ListFamilies
    /\ ~HasPageSrc(state)
    /\ WellFormedLists(dom, BodyOpen)

TbodyStartStep ==
    /\ pc = "walk" /\ pending.nodeType = "element" /\ pending.nodeName = "tbody"
    /\ Len(stack') = Len(stack) + 1
\* the step serializes the end token of a tbody element
TbodyEndStep ==
    /\ pc = "walk" /\ stack # << >> /\ pending = NoNode /\ Top.done
    /\ Top.node.nodeName = "tbody"
    /\ Len(stack') = Len(stack) - 1
\* the token chunks a step added are all empty
NoTokenText ==
    \A k \in (Len(chunks) + 1)..Len(chunks') :
        IsTokenChunk(chunks'[k]) => chunks'[k].text = Empty
\* the line state and singleLineMode are as before the step
LineStateKept ==
    /\ state'.onNewline = state.onNewline
    /\ state'.onStartOfLine = state.onStartOfLine
    /\ state'.singleLineMode = state.singleLineMode
\* the same, but for the flags a buffered separator sets when it is flushed
\* after the token
LineStateKeptButFlush ==
    /\ state.bufferedSeparator = NullStr => LineStateKept
    /\ state'.singleLineMode = state.singleLineMode
\* the start token left the tag tokens alone (prevTagToken after the token is
\* the one the frame saves)
StartTagTokensKept ==
    /\ stack'[Len(stack')].oldPrevTagToken = state.prevTagToken
    /\ state'.currTagToken = state.currTagToken
\* the end token left the tag tokens, restored before it, alone
EndTagTokensKept ==
    /\ state'.prevTagToken = Top.oldPrevTagToken
    /\ state'.currTagToken = state.currTagToken

TbodyEntryPicked(st, token) ==
    /\ ~(token.da.src # NoSrc /\ token.typeof = "mw:TemplateSource")
    /\ ~IsHTMLTag(token)
    /\ ~(DpEmpty(token.da) /\ st.parentSTX = "html")

EmptyPipedLink == link.pc = "done" /\ link.out.piped /\ link.out.contentSrc = Empty

\* C30: a wikilink of any type is emitted with empty text after the pipe
\* only when dataParsoid.pipetrick is set and the pipe trick applies to the
\* target; every other piped link whose content is empty gets '<nowiki/>'
C30_NoNewPipeTrick ==
    EmptyPipedLink
        => /\ link.node.pipetrick
           /\ canUsePipeTrick(link.node, linkData(link.node))

\* the content that protects an empty link content from the pipe trick
NowikiContent == <<"<", "n", "o", "w", "i", "k", "i", "/", ">">>
\* C30, as the code has it: a wikilink of a type other than Category is
\* emitted with empty text after the pipe only when dataParsoid.pipetrick is
\* set and the pipe trick applies to the target, and a piped link of such a
\* type whose child nodes serialize to nothing gets '<nowiki/>' otherwise; a
\* piped category link never gets '<nowiki/>' in place of an empty sort key
C30_NoNewPipeTrickButCategory ==
    (link.pc = "done" /\ link.out.piped)
        => IF link.node.type = "mw:WikiLink/Category"
           THEN link.out.contentSrc # NowikiContent
           ELSE /\ link.out.contentSrc = Empty
                     => /\ link.node.pipetrick
                        /\ canUsePipeTrick(link.node, linkData(link.node))
                /\ (/\ link.node.children = "nodes" /\ link.node.content = Empty
                    /\ ~willUsePipeTrick(link.node, linkData(link.node)))
                     => link.out.contentSrc = NowikiContent

\* a link to n:F whose text child is F and whose source used the pipe trick
\* has been serialized as '[[n:F|]]'
C30_Witness ==
    /\ link.pc = "done"
    /\ link.node.type = "mw:WikiLink" /\ link.node.pipetrick
    /\ link.node.href = <<"n", ":", "F">> /\ link.node.children = "text"
    /\ link.out.text = <<"[", "[", "n", ":", "F", "|", "]", "]">>

\* what a reader sees of the text between the brackets: '<nowiki/>' shows
\* nothing
ShownText(shown) == IF shown = NowikiContent THEN Empty ELSE shown
\* linkHandler has serialized a wikilink whose only child is a text node and
\* whose data-parsoid has no pipetrick
TextLinkSerialized ==
    /\ link.pc = "done"
    /\ link.node.type = "mw:WikiLink"
    /\ link.node.children = "text"
    /\ ~link.node.pipetrick

\* C31: for a wikilink whose only child is a text node and which does not
\* use the pipe trick, the emitted prefix, link content and tail concatenate
\* to exactly the anchor's text
C31_PrefixContentTail ==
    TextLinkSerialized
        => link.out.prefix \o ShownText(link.out.shown) \o link.out.tail
              = link.node.content

\* C32: whenever a b or i start handler consults state.lastRes, lastRes
\* equals the last (at most 100) characters of all wikitext produced so far
\* in document order, the text collected for a figure caption included
C32_LastResIsProducedText == history.stale = 0


\* the number of places of s where sub starts
RECURSIVE Occurrences(_, _)
Occurrences(s, sub) ==
    IF Len(s) < Len(sub) THEN 0
    ELSE (IF StartsWith(s, sub) THEN 1 ELSE 0) + Occurrences(Tail(s), sub)
CommentSrc == CommentOpen \o <<"c">> \o CommentClose

\* C33: every comment node of the input DOM appears in the output as
\* '<!--' + data + '-->' exactly once, with and without original source,
\* also a comment that preprocessing folded into a mw:Separator meta
C33_EveryCommentEmittedOnce ==
    (pc = "done" /\ family = "inline")
        => Occurrences(ChunkText(chunks), CommentSrc) = history.comments


\* a group of size keys: the width and the height it holds, if any
NoGroup == [width |-> NullStr, height |-> NullStr, open |-> FALSE]
groupOption(group) ==
    (IF group.width # NullStr THEN group.width ELSE Empty)
    \o (IF group.height # NullStr THEN <<"x">> \o group.height ELSE Empty)
    \o <<"p", "x">>
groupFlushed(group) == IF group.open THEN <<groupOption(group)>> ELSE << >>
\* one size option for each group of size keys, where the group stands, the
\* other options in their order
RECURSIVE groupedOptions(_, _)
groupedOptions(optionList, group) ==
    IF optionList = << >> THEN groupFlushed(group)
    ELSE LET a == Head(optionList)
         IN  IF a.k \in {"width", "height"}
             THEN groupedOptions(Tail(optionList),
                                 [group EXCEPT ![a.k] = a.v, !.open = TRUE])
             ELSE groupFlushed(group)
                  \o <<IF a.k = "caption" THEN FigureCaption ELSE a.v>>
                  \o groupedOptions(Tail(optionList), NoGroup)

\* C34: each group of size keys of an option list yields exactly one size
\* option, where the group stands, built only from the width and height of
\* that group; a group that ends the list is emitted, a height of an earlier
\* group is never reused, and the other options keep their order
C34_OneSizeOptionPerGroup ==
    figure.pc = "done" => figure.out = groupedOptions(figure.optionList, NoGroup)


IsPrefix(s, t) == Len(s) <= Len(t) /\ s = SubSeq(t, 1, Len(s))
\* no senderLoop is running or posted
Quiescent == dispatcher.loop = "idle" /\ dispatcher.posted = 0

\* C35: QueueDispatcher delivers every chunk list passed to receive to the
\* receiver exactly once and in the order of the receive calls, also when the
\* receiver calls receive from inside senderLoop and when several receive
\* calls happen before the posted senderLoop runs
C35_DeliveredInOrderOnce ==
    dispatcher.pc = "run" =>
        /\ IsPrefix(dispatcher.delivered, dispatcher.sent)
        /\ dispatcher.delivered \o
             [i \in 1..Len(dispatcher.queue) |->
                 dispatcher.queue[Len(dispatcher.queue) + 1 - i]]
             = dispatcher.sent
        /\ dispatcher.queue # << >> => (dispatcher.posted > 0 \/ dispatcher.loop # "idle")
        /\ Quiescent => dispatcher.delivered = dispatcher.sent
C35_Witness ==
    /\ dispatcher.pc = "run"
    /\ Quiescent
    /\ dispatcher.reentered
    /\ dispatcher.burst
    /\ Len(dispatcher.delivered) = MaxChunks
    /\ dispatcher.haveEndOfInput


\* C36: with receive and senderLoop on different threads no chunk is
\* stranded, every received chunk is eventually delivered, and the queue is
\* never accessed by two threads at once
C36_NoChunkStranded ==
    /\ [](~dispatcher.raced)
    /\ \A c \in 1..MaxChunks :
          (\E i \in 1..Len(dispatcher.sent) : dispatcher.sent[i] = c)
             ~> (\E i \in 1..Len(dispatcher.delivered) : dispatcher.delivered[i] = c)


\* the places of the watched pipeline in the caches, and at work
WatchedCached ==
    {<<k, i>> \in CacheKeys \X (1..CacheLimit + 1) :
        i <= Len(pipelines.pipelineCache[k]) /\ pipelines.pipelineCache[k][i].watched}
WatchedAtWork == {p \in BagToSet(pipelines.atWork) : p.watched}
CacheListeners(pipe) == Cardinality({i \in 1..Len(pipe.end) : pipe.end[i] = "cache"})

C38_ResultWrittenBeforeExit ==
    tool.pc = "exited" =>
        /\ tool.stdout # << >>
        /\ tool.paths = <<"html2html">> => tool.stdout = <<"html">>


\* the number of times the response was completed
Completions(res) ==
    Cardinality({i \in 1..Len(res) : res[i] \in {"send500", "end"}})

\* C39: the response of a POST request is completed at most once: when
\* parsing the posted HTML fails the 500 response is sent and no
\* serialization is attempted, and when the serializer throws the error
\* callback is called once and sends one 500 response
C39_ResponseCompletedOnce ==
    /\ request.pc # "none" => Completions(request.res) <= 1
    /\ request.pc = "done" =>
          /\ request.body.content = "unparsable" =>
                (request.res = <<"send500">> /\ request.serializeDOMCalls = 0)
          /\ request.exception = "Error" => request.errCBCalls = 1

====
